---------------------------- MODULE Spec2Model ----------------------------
(***************************************************************************)
(* Model of process_incoming_data.py (Python 2): the month/date codec, the *)
(* per-file aggregation pipelines with their chart formatters, and the     *)
(* batch driver process_data_files.                                        *)
(*                                                                         *)
(* A Python str is a sequence of one-character strings, so that lower(),   *)
(* "in", slicing, strftime and float() are computed character by           *)
(* character.  None is the model value None.  A Python exception is the    *)
(* name of its class in the field exc of a result ("none": no exception).  *)
(***************************************************************************)
EXTENDS Integers, Sequences, FiniteSets, TLC

VARIABLES
    \* --- the module-level lists of process_incoming_data (every specification)
    tables,       \* name of a module-level schema -> the list it is bound to
    \* --- month/date codec call (SpecDate)
    month,        \* the month index handed to actual_date
    date_out,     \* what the call produced
    cpc,          \* "call" before the call, "ret" after it, "idle" elsewhere
    \* --- one call of human_numbers (SpecNum)
    num,              \* the number handed to human_numbers, as the str read
    places,           \* its argument decimal_places
    whole_units,      \* its argument whole_units_only
    hn_out,           \* what the call produced
    hpc,              \* "call" before the call, "ret" after it, "idle" elsewhere
    \* --- one per-file pipeline (SpecAgg)
    handler,      \* key of FILE_PREFIXES whose handler runs
    inputdata,    \* the data rows of the file (load_csv), as a set
    todo,         \* the rows the loop has not reached yet
    proc,         \* the handler's dict proc
    lastRow,      \* the row of the latest loop iteration
    ppc,          \* "rows" in the loop, "done" returned, "raised", "idle"
    pexc,         \* class of the exception the handler raised, or "none"
    result,       \* the handler's return value (cond, data, json)
    \* --- the batch driver (Spec)
    inputfiles,   \* get_csv_list(inputpath)
    fidx,         \* position of the for loop in inputfiles
    successes,
    failures,
    written,      \* output paths written so far -> kind of the last write
    dpc,          \* "loop", "done" (returned), "raised" (exception escaped)
    dexc,         \* class of the exception that escaped process_data_files
    lastRun       \* what the latest dispatched handler did (history)

dateVars == <<month, date_out, cpc>>
numVars == <<num, places, whole_units, hn_out, hpc>>
codecVars == <<dateVars, numVars>>
pipeVars == <<handler, inputdata, todo, proc, lastRow, ppc, pexc, result>>
driverVars == <<inputfiles, fidx, successes, failures, written, dpc, dexc, lastRun>>
vars == <<tables, codecVars, pipeVars, driverVars>>

\* None: no str is a sequence holding a longer string
None == <<"None">>

-----------------------------------------------------------------------------
(* Python str helpers *)

\* The characters the model uses, in ASCII order.
AsciiTable ==
    <<" ","%","-",".","0","1","2","3","4","5","6","7","8","9",
      "A","B","C","D","E","F","G","H","I","J","K","L","M","N","O","P","Q","R","S","T","U","V","W","X","Y","Z",
      "_",
      "a","b","c","d","e","f","g","h","i","j","k","l","m","n","o","p","q","r","s","t","u","v","w","x","y","z","{","}">>

Chars == {AsciiTable[i] : i \in DOMAIN AsciiTable}

UpperChars == <<"A","B","C","D","E","F","G","H","I","J","K","L","M","N","O","P","Q","R","S","T","U","V","W","X","Y","Z">>
LowerChars == <<"a","b","c","d","e","f","g","h","i","j","k","l","m","n","o","p","q","r","s","t","u","v","w","x","y","z">>
Digits == <<"0","1","2","3","4","5","6","7","8","9">>

\* Rank of a character in ASCII order (all that string comparison needs).
Ord == [c \in Chars |-> CHOOSE i \in DOMAIN AsciiTable : AsciiTable[i] = c]

LowerChar == [c \in Chars |->
                IF \E i \in DOMAIN UpperChars : UpperChars[i] = c
                THEN LowerChars[CHOOSE i \in DOMAIN UpperChars : UpperChars[i] = c]
                ELSE c]

\* str.lower()
Lower(s) == [i \in DOMAIN s |-> LowerChar[s[i]]]

\* s.find(sub): 0-based index of the first occurrence, -1 when there is none
Find(s, sub) ==
    LET hits == {i \in 1..(Len(s) - Len(sub) + 1) : SubSeq(s, i, i + Len(sub) - 1) = sub}
    IN IF hits = {} THEN -1 ELSE (CHOOSE i \in hits : \A j \in hits : i <= j) - 1

\* sub in s
Contains(s, sub) == Find(s, sub) >= 0

\* s.endswith(sub)
EndsWith(s, sub) == Len(s) >= Len(sub) /\ SubSeq(s, Len(s) - Len(sub) + 1, Len(s)) = sub

IsDigit(c) == \E i \in DOMAIN Digits : Digits[i] = c
DigitVal(c) == (CHOOSE i \in DOMAIN Digits : Digits[i] = c) - 1
DigitChar(d) == Digits[d + 1]

RECURSIVE DigitsVal(_)
\* value of a non-empty run of decimal digits
DigitsVal(s) ==
    IF Len(s) = 0 THEN 0
    ELSE 10 * DigitsVal(SubSeq(s, 1, Len(s) - 1)) + DigitVal(s[Len(s)])

AllDigits(s) == Len(s) > 0 /\ \A i \in DOMAIN s : IsDigit(s[i])

\* int(s) of a str: an optional sign and decimal digits, else ValueError
int(s) ==
    IF AllDigits(s) THEN [exc |-> "none", val |-> DigitsVal(s)]
    ELSE IF Len(s) > 1 /\ s[1] = "-" /\ AllDigits(Tail(s))
         THEN [exc |-> "none", val |-> 0 - DigitsVal(Tail(s))]
         ELSE [exc |-> "ValueError"]

\* cmp of two str: -1, 0, 1 (lexicographic by character code)
RECURSIVE StrCmp(_, _)
StrCmp(a, b) ==
    IF Len(a) = 0 THEN (IF Len(b) = 0 THEN 0 ELSE -1)
    ELSE IF Len(b) = 0 THEN 1
    ELSE IF Ord[a[1]] < Ord[b[1]] THEN -1
    ELSE IF Ord[a[1]] > Ord[b[1]] THEN 1
    ELSE StrCmp(Tail(a), Tail(b))

-----------------------------------------------------------------------------
(* Month/date codec *)

BASE_YEAR == 2000
SEC_TO_MS == 1000
DATE_SCHEMA == <<"%","Y","-","%","m">>

\* datetime.MINYEAR, datetime.MAXYEAR and the first year strftime accepts
MINYEAR == 1
MAXYEAR == 9999
STRFTIME_MINYEAR == 1900

\* %Y of a year 1000..9999 and %m of a month: zero-padded decimal
Fmt4(n) == <<DigitChar(n \div 1000), DigitChar((n \div 100) % 10),
             DigitChar((n \div 10) % 10), DigitChar(n % 10)>>
Fmt2(n) == <<DigitChar((n \div 10) % 10), DigitChar(n % 10)>>

SNAPSHOT_MONTH_SCHEMA == <<"%","B"," ","%","Y">>
\* the month names "%B" prints (C locale)
MONTH_NAMES ==
    << <<"J","a","n","u","a","r","y">>,
       <<"F","e","b","r","u","a","r","y">>,
       <<"M","a","r","c","h">>,
       <<"A","p","r","i","l">>,
       <<"M","a","y">>,
       <<"J","u","n","e">>,
       <<"J","u","l","y">>,
       <<"A","u","g","u","s","t">>,
       <<"S","e","p","t","e","m","b","e","r">>,
       <<"O","c","t","o","b","e","r">>,
       <<"N","o","v","e","m","b","e","r">>,
       <<"D","e","c","e","m","b","e","r">> >>

\* date.strftime(schema) of the first day of month mo of year y, for the two
\* schemas the program uses: "%Y-%m" and "%B %Y"
strftime(y, mo, schema) ==
    IF y < STRFTIME_MINYEAR THEN [exc |-> "ValueError"]
    ELSE IF schema = DATE_SCHEMA
    THEN [exc |-> "none", str |-> Fmt4(y) \o <<"-">> \o Fmt2(mo)]
    ELSE [exc |-> "none", str |-> MONTH_NAMES[mo] \o <<" ">> \o Fmt4(y)]

\* a wrong actual_date: the month is not offset by one for January
actual_date_zero_based(m, schema) ==
    LET addl_years == m \div 12
        addl_months == m % 12
    IN IF BASE_YEAR + addl_years < MINYEAR \/ BASE_YEAR + addl_years > MAXYEAR
          \/ addl_months < 1
       THEN [exc |-> "ValueError"]
       ELSE strftime(BASE_YEAR + addl_years, addl_months, schema)

\* actual_date(month, schema): Python 2 "/" on ints floors, as \div does, and
\* "%" takes the sign of the divisor, as % does.
actual_date(m, schema) ==
    LET addl_years == m \div 12
        addl_months == (m % 12) + 1
    IN IF BASE_YEAR + addl_years < MINYEAR \/ BASE_YEAR + addl_years > MAXYEAR
       THEN [exc |-> "ValueError"]
       ELSE strftime(BASE_YEAR + addl_years, addl_months, schema)

\* datetime.strptime(datestring, "%Y-%m"): four digits, "-", one or two digits
StrptimeFields(y, mo) ==
    IF mo \in 1..12 /\ y >= MINYEAR
    THEN [exc |-> "none", year |-> y, mon |-> mo]
    ELSE [exc |-> "ValueError"]

strptime(s, schema) ==
    IF Len(s) >= 6 /\ Len(s) <= 7 /\ AllDigits(SubSeq(s, 1, 4)) /\ s[5] = "-"
       /\ AllDigits(SubSeq(s, 6, Len(s)))
    THEN StrptimeFields(DigitsVal(SubSeq(s, 1, 4)), DigitsVal(SubSeq(s, 6, Len(s))))
    ELSE [exc |-> "ValueError"]

IsLeap(y) == y % 4 = 0 /\ (y % 100 # 0 \/ y % 400 = 0)

\* days from 0001-01-01 to the first day of year y
DaysBeforeYear(y) == (y - 1) * 365 + (y - 1) \div 4 - (y - 1) \div 100 + (y - 1) \div 400

DaysInMonth(y, mo) ==
    IF mo = 2 THEN (IF IsLeap(y) THEN 29 ELSE 28)
    ELSE IF mo \in {4, 6, 9, 11} THEN 30 ELSE 31

RECURSIVE DaysBeforeMonth(_, _)
DaysBeforeMonth(y, mo) ==
    IF mo = 1 THEN 0 ELSE DaysBeforeMonth(y, mo - 1) + DaysInMonth(y, mo - 1)

SecondsPerDay == 86400
EpochYear == 1970

\* epochtime(datestring, schema): seconds from 1970-01-01 to the parsed date
SecondsSinceEpoch(d) ==
    IF d.exc # "none" THEN d
    ELSE [exc |-> "none",
          val |-> (DaysBeforeYear(d.year) + DaysBeforeMonth(d.year, d.mon)
                   - DaysBeforeYear(EpochYear)) * SecondsPerDay]

epochtime(s, schema) == SecondsSinceEpoch(strptime(s, schema))

\* sec * SEC_TO_MS as a Python long: <<q, r>> stands for q * 10^6 + r with
\* 0 <= r < 10^6 (the product does not fit a 32-bit integer).
Milliseconds(sec) == <<sec \div SEC_TO_MS, (sec % SEC_TO_MS) * SEC_TO_MS>>

-----------------------------------------------------------------------------
(* Static tables and schemas *)

SNAPSHOT_FNAME_KEY == <<"d","a","t","a","_","s","n","a","p","s","h","o","t">>
MKT_SFX_LEN == -8

MAP_OUTPUT_SCHEMA ==
    << <<"f","i","p","s","_","c","o","d","e">>,
       <<"s","t","a","t","e","_","a","b","b","r">>,
       <<"v","a","l","u","e">> >>
SUMMARY_NUM_OUTPUT_SCHEMA ==
    << <<"m","o","n","t","h">>,
       <<"d","a","t","e">>,
       <<"n","u","m">>,
       <<"n","u","m","_","u","n","a","d","j">> >>
SUMMARY_VOL_OUTPUT_SCHEMA ==
    << <<"m","o","n","t","h">>,
       <<"d","a","t","e">>,
       <<"v","o","l">>,
       <<"v","o","l","_","u","n","a","d","j">> >>
YOY_SUMMARY_OUTPUT_SCHEMA ==
    << <<"m","o","n","t","h">>,
       <<"d","a","t","e">>,
       <<"y","o","y","_","n","u","m">>,
       <<"y","o","y","_","v","o","l">> >>

AGE == <<"a","g","e">>
INCOME == <<"i","n","c","o","m","e","_","l","e","v","e","l">>
SCORE == <<"c","r","e","d","i","t","_","s","c","o","r","e">>

GROUP_YOY_OUTPUT_SCHEMA ==
    << <<"m","o","n","t","h">>,
       <<"d","a","t","e">> >>
AGE_YOY_IN ==
    << <<"Y","o","u","n","g","e","r"," ","t","h","a","n"," ","3","0">>,
       <<"3","0"," ","-"," ","4","4">>,
       <<"4","5"," ","-"," ","6","4">>,
       <<"6","5"," ","a","n","d"," ","o","l","d","e","r">> >>
AGE_YOY_COLS ==
    << <<"y","o","u","n","g","e","r","-","t","h","a","n","-","3","0">>,
       <<"3","0","-","4","4">>,
       <<"4","5","-","6","4">>,
       <<"6","5","-","a","n","d","-","o","l","d","e","r">> >>
AGE_YOY_JSON ==
    << <<"Y","o","u","n","g","e","r"," ","t","h","a","n"," ","3","0">>,
       <<"3","0","-","4","4">>,
       <<"4","5","-","6","4">>,
       <<"6","5"," ","a","n","d"," ","o","l","d","e","r">> >>
INCOME_YOY_IN ==
    << <<"L","o","w">>,
       <<"M","o","d","e","r","a","t","e">>,
       <<"M","i","d","d","l","e">>,
       <<"H","i","g","h">> >>
INCOME_YOY_COLS ==
    << <<"l","o","w">>,
       <<"m","o","d","e","r","a","t","e">>,
       <<"m","i","d","d","l","e">>,
       <<"h","i","g","h">> >>
INCOME_YOY_JSON == INCOME_YOY_IN
SCORE_YOY_IN ==
    << <<"D","e","e","p"," ","S","u","b","p","r","i","m","e">>,
       <<"S","u","b","p","r","i","m","e">>,
       <<"N","e","a","r"," ","P","r","i","m","e">>,
       <<"P","r","i","m","e">>,
       <<"S","u","p","e","r","p","r","i","m","e">> >>
SCORE_YOY_COLS ==
    << <<"d","e","e","p","-","s","u","b","p","r","i","m","e">>,
       <<"s","u","b","p","r","i","m","e">>,
       <<"n","e","a","r","-","p","r","i","m","e">>,
       <<"p","r","i","m","e">>,
       <<"s","u","p","e","r","-","p","r","i","m","e">> >>
SCORE_YOY_JSON ==
    << <<"D","e","e","p"," ","s","u","b","p","r","i","m","e">>,
       <<"S","u","b","p","r","i","m","e">>,
       <<"N","e","a","r","-","p","r","i","m","e">>,
       <<"P","r","i","m","e">>,
       <<"S","u","p","e","r","-","p","r","i","m","e">> >>

TEXT_FIXES ==
    (<<"3","0"," ","-"," ","4","4">> :> <<"A","g","e"," ","3","0","-","4","4">>) @@
    (<<"4","5"," ","-"," ","6","4">> :> <<"A","g","e"," ","4","5","-","6","4">>) @@
    (<<"6","5"," ","a","n","d"," ","o","l","d","e","r">> :> <<"A","g","e"," ","6","5"," ","a","n","d"," ","o","l","d","e","r">>) @@
    (<<"D","e","e","p"," ","S","u","b","p","r","i","m","e">> :> <<"D","e","e","p"," ","s","u","b","p","r","i","m","e">>) @@
    (<<"N","e","a","r"," ","P","r","i","m","e">> :> <<"N","e","a","r","-","p","r","i","m","e">>) @@
    (<<"S","u","p","e","r","p","r","i","m","e">> :> <<"S","u","p","e","r","-","p","r","i","m","e">>)

GROUP_VOL_OUTPUT_SCHEMA ==
    << <<"m","o","n","t","h">>,
       <<"d","a","t","e">>,
       <<"v","o","l">>,
       <<"v","o","l","_","u","n","a","d","j">>,
       <<"{","}","_","g","r","o","u","p">> >>

\* the output schemas as the module binds them when it is loaded: the list
\* objects the handlers receive (default arguments) or copy
StaticTables ==
    [MAP_OUTPUT_SCHEMA |-> MAP_OUTPUT_SCHEMA,
     SUMMARY_NUM_OUTPUT_SCHEMA |-> SUMMARY_NUM_OUTPUT_SCHEMA,
     SUMMARY_VOL_OUTPUT_SCHEMA |-> SUMMARY_VOL_OUTPUT_SCHEMA,
     YOY_SUMMARY_OUTPUT_SCHEMA |-> YOY_SUMMARY_OUTPUT_SCHEMA,
     GROUP_YOY_OUTPUT_SCHEMA |-> GROUP_YOY_OUTPUT_SCHEMA,
     GROUP_VOL_OUTPUT_SCHEMA |-> GROUP_VOL_OUTPUT_SCHEMA]

\* the dict MARKET_NAMES, in the order its items() are visited
MARKET_NAMES ==
    << <<<<"A","U","T">>, <<"a","u","t","o","-","l","o","a","n","s">>>>,
       <<<<"C","R","C">>, <<"c","r","e","d","i","t","-","c","a","r","d","s">>>>,
       <<<<"H","C","E">>, <<"h","e","c","e","s">>>>,
       <<<<"H","L","C">>, <<"h","e","l","o","c","s">>>>,
       <<<<"M","T","G">>, <<"m","o","r","t","g","a","g","e","s">>>>,
       <<<<"P","E","R">>, <<"p","e","r","s","o","n","a","l","-","l","o","a","n","s">>>>,
       <<<<"R","E","T">>, <<"r","e","t","a","i","l","-","l","o","a","n","s">>>>,
       <<<<"S","T","U">>, <<"s","t","u","d","e","n","t","-","l","o","a","n","s">>>> >>

\* data snapshot: output name, snippet template and its text fillers
SNAPSHOT_FNAME_HTML == <<"d","a","t","a","_","s","n","a","p","s","h","o","t",".","h","t","m","l">>
SNAPSHOT_HTML ==
    <<"<","h","3",">","<","b",">","{","}","<","/","b",">","<","b","r",">","{","}"," ","o","r",
      "i","g","i","n","a","t","e","d","<","/","h","3",">","\n","<","h","3",">","<","b","r",">",
      "<","b",">","$","{","}","<","/","b",">","<","b","r",">","D","o","l","l","a","r"," ","v",
      "o","l","u","m","e"," ","o","f"," ","n","e","w"," ","{","}","<","/","h","3",">","\n","<",
      "h","3",">","<","b","r",">","<","b",">","{","}","%"," ","{","}","<","/","b",">","<","b",
      "r",">","I","n"," ","y","e","a","r","-","o","v","e","r","-","y","e","a","r"," ","o","r",
      "i","g","i","n","a","t","i","o","n","s","<","/","h","3",">","\n">>
HTML_MKT_NAMES ==
    (<<"A","U","T">> :> <<<<"A","u","t","o"," ","l","o","a","n","s">>, <<"l","o","a","n","s">>>>) @@
    (<<"C","R","C">> :> <<<<"C","r","e","d","i","t"," ","c","a","r","d","s">>, <<"c","a","r","d","s">>>>) @@
    (<<"H","C","E">> :> <<<<"H","E","C","E"," ","l","o","a","n","s">>, <<"l","o","a","n","s">>>>) @@
    (<<"H","L","C">> :> <<<<"H","E","L","O","C","s">>, <<"H","E","L","O","C","s">>>>) @@
    (<<"M","T","G">> :> <<<<"M","o","r","t","g","a","g","e","s">>, <<"m","o","r","t","g","a","g","e","s">>>>) @@
    (<<"P","E","R">> :> <<<<"P","e","r","s","o","n","a","l"," ","l","o","a","n","s">>, <<"l","o","a","n","s">>>>) @@
    (<<"R","E","T">> :> <<<<"R","e","t","a","i","l"," ","l","o","a","n","s">>, <<"l","o","a","n","s">>>>) @@
    (<<"S","T","U">> :> <<<<"S","t","u","d","e","n","t"," ","l","o","a","n","s">>, <<"l","o","a","n","s">>>>)
HTML_DESC == <<<<"d","e","c","r","e","a","s","e">>, <<"i","n","c","r","e","a","s","e">>>>
S_space == <<" ">>
S_nbsp == <<"&","n","b","s","p",";">>

\* state FIPS code -> state abbreviation
FIPS_CODES ==
    (1 :> <<"A","L">>) @@ (2 :> <<"A","K">>) @@ (4 :> <<"A","Z">>) @@ (5 :> <<"A","R">>) @@ (6 :> <<"C","A">>) @@
    (8 :> <<"C","O">>) @@ (9 :> <<"C","T">>) @@ (10 :> <<"D","E">>) @@ (11 :> <<"D","C">>) @@ (12 :> <<"F","L">>) @@
    (13 :> <<"G","A">>) @@ (15 :> <<"H","I">>) @@ (16 :> <<"I","D">>) @@ (17 :> <<"I","L">>) @@ (18 :> <<"I","N">>) @@
    (19 :> <<"I","A">>) @@ (20 :> <<"K","S">>) @@ (21 :> <<"K","Y">>) @@ (22 :> <<"L","A">>) @@ (23 :> <<"M","E">>) @@
    (24 :> <<"M","D">>) @@ (25 :> <<"M","A">>) @@ (26 :> <<"M","I">>) @@ (27 :> <<"M","N">>) @@ (28 :> <<"M","S">>) @@
    (29 :> <<"M","O">>) @@ (30 :> <<"M","T">>) @@ (31 :> <<"N","E">>) @@ (32 :> <<"N","V">>) @@ (33 :> <<"N","H">>) @@
    (34 :> <<"N","J">>) @@ (35 :> <<"N","M">>) @@ (36 :> <<"N","Y">>) @@ (37 :> <<"N","C">>) @@ (38 :> <<"N","D">>) @@
    (39 :> <<"O","H">>) @@ (40 :> <<"O","K">>) @@ (41 :> <<"O","R">>) @@ (42 :> <<"P","A">>) @@ (44 :> <<"R","I">>) @@
    (45 :> <<"S","C">>) @@ (46 :> <<"S","D">>) @@ (47 :> <<"T","N">>) @@ (48 :> <<"T","X">>) @@ (49 :> <<"U","T">>) @@
    (50 :> <<"V","T">>) @@ (51 :> <<"V","A">>) @@ (53 :> <<"W","A">>) @@ (54 :> <<"W","V">>) @@ (55 :> <<"W","I">>) @@
    (56 :> <<"W","Y">>)
\* prefix -> name of the handler function
FILE_PREFIXES ==
    (<<"m","a","p","_","d","a","t","a">> :> "process_map") @@
    (<<"n","u","m","_","d","a","t","a">> :> "process_num_summary") @@
    (<<"v","o","l","_","d","a","t","a">> :> "process_vol_summary") @@
    (<<"v","o","l","u","m","e","_","d","a","t","a","_","a","g","e","_","g","r","o","u","p">> :> "process_group_age_vol") @@
    (<<"v","o","l","u","m","e","_","d","a","t","a","_","i","n","c","o","m","e","_","l","e","v","e","l">> :> "process_group_income_vol") @@
    (<<"v","o","l","u","m","e","_","d","a","t","a","_","s","c","o","r","e","_","l","e","v","e","l">> :> "process_group_score_vol") @@
    (<<"y","o","y","_","d","a","t","a","_","a","l","l">> :> "process_yoy_summary") @@
    (<<"y","o","y","_","d","a","t","a","_","a","g","e","_","g","r","o","u","p">> :> "process_group_age_yoy") @@
    (<<"y","o","y","_","d","a","t","a","_","i","n","c","o","m","e","_","l","e","v","e","l">> :> "process_group_income_yoy") @@
    (<<"y","o","y","_","d","a","t","a","_","s","c","o","r","e","_","l","e","v","e","l">> :> "process_group_score_yoy")

\* substrings the classifiers look for, and literals of the formatters
S_unadjust == <<"u","n","a","d","j","u","s","t">>
S_seasonal == <<"s","e","a","s","o","n","a","l">>
S_number == <<"n","u","m","b","e","r">>
S_volume == <<"v","o","l","u","m","e">>
S_age_sp == <<"a","g","e"," ">>
S_braces == <<"{","}">>
S_yoy_postfix == <<"{","}","_","y","o","y">>
S_dot_csv == <<".","c","s","v">>
S_dot_json == <<".","j","s","o","n">>
K_Number == <<"N","u","m","b","e","r"," ","o","f"," ","L","o","a","n","s">>
K_Volume == <<"D","o","l","l","a","r"," ","V","o","l","u","m","e">>

-----------------------------------------------------------------------------
(* Python values: dict, list.sort(), float(), str.format *)

NoExc == "none"
Raise(e) == [exc |-> e]
Return(c, d, j) == [exc |-> NoExc, cond |-> c, data |-> d, json |-> j]

\* d[k] = v on a dict d (a function)
Put(d, k, v) == [x \in DOMAIN d \cup {k} |-> IF x = k THEN v ELSE d[x]]
has_key(d, k) == k \in DOMAIN d

SeqToSet(s) == {s[i] : i \in DOMAIN s}

\* the keys of a dict in the order items() visits them: some fixed order
RECURSIVE KeysSeq(_)
KeysSeq(ks) ==
    IF ks = {} THEN <<>>
    ELSE LET k == CHOOSE x \in ks : TRUE IN <<k>> \o KeysSeq(ks \ {k})

ReplaceAt(tmpl, i, arg) ==
    IF i < 0 THEN tmpl ELSE SubSeq(tmpl, 1, i) \o arg \o SubSeq(tmpl, i + 3, Len(tmpl))

\* tmpl.format(arg): the first "{}" replaced by arg
Format(tmpl, arg) == ReplaceAt(tmpl, Find(tmpl, S_braces), arg)

\* a decimal number m / 10^e without trailing zeros in the fraction
RECURSIVE Norm(_, _)
Norm(m, e) == IF e > 0 /\ m % 10 = 0 THEN Norm(m \div 10, e - 1) ELSE [m |-> m, e |-> e]

Signed(neg, mag) == IF neg THEN 0 - mag ELSE mag

\* the value of sign, integer digits ip and fraction digits fp
FloatParts(neg, ip, fp) ==
    IF /\ Len(ip) + Len(fp) > 0
       /\ \A i \in DOMAIN ip : IsDigit(ip[i])
       /\ \A i \in DOMAIN fp : IsDigit(fp[i])
    THEN [exc |-> NoExc, val |-> Norm(Signed(neg, DigitsVal(ip \o fp)), Len(fp))]
    ELSE [exc |-> "ValueError"]

FloatSplit(neg, body, dot) ==
    FloatParts(neg,
               IF dot < 0 THEN body ELSE SubSeq(body, 1, dot),
               IF dot < 0 THEN <<>> ELSE SubSeq(body, dot + 2, Len(body)))

FloatStr(neg, body) == FloatSplit(neg, body, Find(body, <<".">>))

\* float(v): TypeError on None; on a str, a decimal literal (optional "-",
\* digits, optional fraction) gives its value; the other strings the rows
\* hold ("NA") give ValueError
float(v) ==
    IF v = None THEN [exc |-> "TypeError"]
    ELSE IF Len(v) > 0 /\ v[1] = "-" THEN FloatStr(TRUE, Tail(v))
    ELSE FloatStr(FALSE, v)

\* cmp of two row items that are str or None (Python 2: None sorts first)
ItemCmp(a, b) ==
    IF a = b THEN 0 ELSE IF a = None THEN -1 ELSE IF b = None THEN 1 ELSE StrCmp(a, b)

RECURSIVE TailCmp(_, _, _)
TailCmp(a, b, i) ==
    IF i > Len(a) THEN (IF i > Len(b) THEN 0 ELSE -1)
    ELSE IF i > Len(b) THEN 1
    ELSE IF a[i] = b[i] THEN TailCmp(a, b, i + 1)
    ELSE ItemCmp(a[i], b[i])

\* cmp of two output rows (lists): the month number, then the str items
RowCmp(a, b) ==
    IF a[1] # b[1] THEN (IF a[1] < b[1] THEN -1 ELSE 1) ELSE TailCmp(a, b, 2)

InsertAt(s, n, r) == SubSeq(s, 1, n) \o <<r>> \o SubSeq(s, n + 1, Len(s))

\* the insertion with the comparison turned round
SortedInsertDescending(s, r) ==
    InsertAt(s, Cardinality({i \in DOMAIN s : RowCmp(s[i], r) >= 0}), r)

SortedInsert(s, r) == InsertAt(s, Cardinality({i \in DOMAIN s : RowCmp(s[i], r) <= 0}), r)

\* data.sort(): stable, ascending
RECURSIVE sort(_)
sort(s) ==
    IF Len(s) = 0 THEN <<>>
    ELSE SortedInsert(sort(SubSeq(s, 1, Len(s) - 1)), s[Len(s)])

-----------------------------------------------------------------------------
(* Chart formatters.  The state of a loop carries exc, the exception that  *)
(* left the function.                                                      *)

\* the try block of a row with two value columns: both appends in one try,
\* "except ValueError: continue"; first/second name the two series
TwoValueTry(st, ms, a, u, first, second) ==
    IF a.exc = "ValueError" THEN st
    ELSE IF a.exc # NoExc THEN [st EXCEPT !.exc = a.exc]
    ELSE IF u.exc = "ValueError" THEN [st EXCEPT ![first] = Append(@, <<ms, a.val>>)]
    ELSE IF u.exc # NoExc THEN [st EXCEPT ![first] = Append(@, <<ms, a.val>>), !.exc = u.exc]
    ELSE [st EXCEPT ![first] = Append(@, <<ms, a.val>>), ![second] = Append(@, <<ms, u.val>>)]

TwoValueRow(st, sec, a, u, first, second) ==
    IF sec.exc # NoExc THEN [st EXCEPT !.exc = sec.exc]
    ELSE TwoValueTry(st, Milliseconds(sec.val), a, u, first, second)

\* one iteration of json_for_line_chart's loop
json_for_line_chart_row(out, row) ==
    TwoValueRow(out, epochtime(row[2], DATE_SCHEMA), float(row[3]), float(row[4]),
                "adjusted", "unadjusted")

RECURSIVE json_for_line_chart_loop(_, _)
json_for_line_chart_loop(out, data) ==
    IF Len(data) = 0 \/ out.exc # NoExc THEN out
    ELSE json_for_line_chart_loop(json_for_line_chart_row(out, Head(data)), Tail(data))

LineChartReturn(o) ==
    IF o.exc # NoExc THEN Raise(o.exc)
    ELSE [exc |-> NoExc, out |-> [adjusted |-> o.adjusted, unadjusted |-> o.unadjusted]]

json_for_line_chart(data) ==
    LineChartReturn(json_for_line_chart_loop(
        [exc |-> NoExc, adjusted |-> <<>>, unadjusted |-> <<>>], data))

\* one iteration of json_for_bar_chart's loop
json_for_bar_chart_row(out, row) ==
    TwoValueRow(out, epochtime(row[2], DATE_SCHEMA), float(row[3]), float(row[4]),
                "outnum", "outvol")

RECURSIVE json_for_bar_chart_loop(_, _)
json_for_bar_chart_loop(out, data) ==
    IF Len(data) = 0 \/ out.exc # NoExc THEN out
    ELSE json_for_bar_chart_loop(json_for_bar_chart_row(out, Head(data)), Tail(data))

\* the returned dict has the keys "Number of Loans" and "Dollar Volume"
BarChartReturn(o) ==
    IF o.exc # NoExc THEN Raise(o.exc)
    ELSE [exc |-> NoExc, out |-> (K_Number :> o.outnum) @@ (K_Volume :> o.outvol)]

json_for_bar_chart(data) ==
    BarChartReturn(json_for_bar_chart_loop(
        [exc |-> NoExc, outnum |-> <<>>, outvol |-> <<>>], data))

\* the try block of json_for_group_bar_chart for one column of a row
GroupBarCell(st, ms, col, f) ==
    IF f.exc = "ValueError" THEN st
    ELSE IF f.exc # NoExc THEN [st EXCEPT !.exc = f.exc]
    ELSE [st EXCEPT !.tmp[col] = Append(@, <<ms, f.val>>)]

\* the columns colnum.. of a row (colnum counts from 1 here, so the value
\* is row[2 + colnum])
RECURSIVE json_for_group_bar_chart_cols(_, _, _, _, _)
json_for_group_bar_chart_cols(st, row, ms, val_cols, colnum) ==
    IF colnum > Len(val_cols) \/ st.exc # NoExc THEN st
    ELSE IF 2 + colnum > Len(row) THEN [st EXCEPT !.exc = "IndexError"]
    ELSE json_for_group_bar_chart_cols(
             GroupBarCell(st, ms, val_cols[colnum], float(row[2 + colnum])),
             row, ms, val_cols, colnum + 1)

GroupBarRow(st, row, sec, val_cols) ==
    IF sec.exc # NoExc THEN [st EXCEPT !.exc = sec.exc]
    ELSE json_for_group_bar_chart_cols(st, row, Milliseconds(sec.val), val_cols, 1)

RECURSIVE json_for_group_bar_chart_loop(_, _, _)
json_for_group_bar_chart_loop(st, data, val_cols) ==
    IF Len(data) = 0 \/ st.exc # NoExc THEN st
    ELSE json_for_group_bar_chart_loop(
             GroupBarRow(st, Head(data), epochtime(Head(data)[2], DATE_SCHEMA), val_cols),
             Tail(data), val_cols)

\* val_cols.index(col): position of the first occurrence
IndexOf(seq, x) == CHOOSE i \in DOMAIN seq : seq[i] = x /\ \A j \in DOMAIN seq : seq[j] = x => i <= j

\* "Translate into JSON output columns": out[out_names[idx]] = tmp[col_key][:]
GroupBarReturn(st, val_cols, out_names) ==
    IF st.exc # NoExc THEN Raise(st.exc)
    ELSE IF \E c \in DOMAIN st.tmp : IndexOf(val_cols, c) > Len(out_names) THEN Raise("IndexError")
    ELSE [exc |-> NoExc,
          out |-> [n \in {out_names[IndexOf(val_cols, c)] : c \in DOMAIN st.tmp} |->
                     st.tmp[CHOOSE c \in DOMAIN st.tmp : out_names[IndexOf(val_cols, c)] = n]]]

json_for_group_bar_chart(data, val_cols, out_names) ==
    GroupBarReturn(
        json_for_group_bar_chart_loop(
            [exc |-> NoExc, tmp |-> [c \in SeqToSet(val_cols) |-> <<>>]], data, val_cols),
        val_cols, out_names)

\* "JSON fix for age groups - strip off the Age "
StripAge(groupname) ==
    IF Find(Lower(groupname), S_age_sp) = 0 THEN SubSeq(groupname, 5, Len(groupname))
    ELSE groupname

\* "Initialize if first time groupname is encountered"
InitGroup(out, groupname) ==
    IF groupname \in DOMAIN out THEN out
    ELSE Put(out, groupname, [exc |-> NoExc, adjusted |-> <<>>, unadjusted |-> <<>>])

\* the try block of json_for_group_line_chart on the pair g of the group
GroupLineTry(st, groupname, g) ==
    [exc |-> g.exc, out |-> [st.out EXCEPT ![groupname] = [g EXCEPT !.exc = NoExc]]]

GroupLineRow(st, groupname, sec, a, u) ==
    IF sec.exc # NoExc THEN [st EXCEPT !.exc = sec.exc]
    ELSE GroupLineTry([st EXCEPT !.out = InitGroup(@, groupname)], groupname,
                      TwoValueTry(InitGroup(st.out, groupname)[groupname],
                                  Milliseconds(sec.val), a, u, "adjusted", "unadjusted"))

\* one iteration of json_for_group_line_chart's loop
json_for_group_line_chart_row(st, row) ==
    GroupLineRow(st, StripAge(row[5]), epochtime(row[2], DATE_SCHEMA),
                 float(row[3]), float(row[4]))

RECURSIVE json_for_group_line_chart_loop(_, _)
json_for_group_line_chart_loop(st, data) ==
    IF Len(data) = 0 \/ st.exc # NoExc THEN st
    ELSE json_for_group_line_chart_loop(json_for_group_line_chart_row(st, Head(data)), Tail(data))

\* each group's pair without the loop's bookkeeping field
GroupLineReturn(st) ==
    IF st.exc # NoExc THEN Raise(st.exc)
    ELSE [exc |-> NoExc,
          out |-> [g \in DOMAIN st.out |->
                     [adjusted |-> st.out[g].adjusted, unadjusted |-> st.out[g].unadjusted]]]

json_for_group_line_chart(data) ==
    GroupLineReturn(json_for_group_line_chart_loop([exc |-> NoExc, out |-> <<>>], data))

-----------------------------------------------------------------------------
(* json_for_tile_map *)

RECURSIVE Pow10(_)
Pow10(n) == IF n = 0 THEN 1 ELSE 10 * Pow10(n - 1)

\* the decimal digits of a natural number
RECURSIVE NatStr(_)
NatStr(n) == IF n < 10 THEN <<DigitChar(n)>> ELSE NatStr(n \div 10) \o <<DigitChar(n % 10)>>

Abs(n) == IF n < 0 THEN 0 - n ELSE n

\* a / d rounded to the nearest integer, a >= 0.  A quotient exactly half way
\* is rounded by Python on the binary value, which lies on either side of it;
\* the values tried are never half way.
RoundDiv(a, d) == (2 * a + d) \div (2 * d)

\* the text of h hundredths with two decimal places
FixedTwo(neg, h) ==
    (IF neg THEN <<"-">> ELSE <<>>) \o NatStr(h \div 100) \o <<".">> \o Fmt2(h % 100)

\* the fraction printed without the factor 100
Percent2fUnscaled(f) == FixedTwo(f.m < 0, RoundDiv(Abs(f.m) * 100, Pow10(f.e)))

\* "{:0.2f}".format(f * 100) of the float f = m / 10^e
Percent2f(f) == FixedTwo(f.m < 0, RoundDiv(Abs(f.m) * 10000, Pow10(f.e)))

\* try: value = "{:0.2f}".format(float(value) * 100)
\* except ValueError: pass
TileValue(value, f) == IF f.exc = NoExc THEN Percent2f(f.val) ELSE value

\* one dict per row (code, state, value), in the order of the rows
json_for_tile_map(data) ==
    IF \E i \in DOMAIN data : data[i][3] = None THEN Raise("TypeError")
    ELSE [exc |-> NoExc,
          out |-> [i \in DOMAIN data |->
                     [name |-> data[i][2],
                      value |-> TileValue(data[i][3], float(data[i][3]))]]]

-----------------------------------------------------------------------------
(* human_numbers.  A float is kept here as its decimal digits, [neg, ip,   *)
(* fp]: sign, integer digits without leading zeros, fraction digits        *)
(* without trailing zeros; the numbers formatted pass 2^31.                *)

RECURSIVE StripLead(_)
StripLead(s) == IF Len(s) > 0 /\ s[1] = "0" THEN StripLead(Tail(s)) ELSE s

RECURSIVE StripTrail(_)
StripTrail(s) ==
    IF Len(s) > 0 /\ s[Len(s)] = "0" THEN StripTrail(SubSeq(s, 1, Len(s) - 1)) ELSE s

Zeros(n) == [i \in 1..n |-> "0"]

DecParts(neg, ip, fp) ==
    IF /\ Len(ip) + Len(fp) > 0
       /\ \A i \in DOMAIN ip : IsDigit(ip[i])
       /\ \A i \in DOMAIN fp : IsDigit(fp[i])
    THEN [exc |-> NoExc,
          val |-> [neg |-> neg, ip |-> StripLead(ip), fp |-> StripTrail(fp)]]
    ELSE [exc |-> "ValueError"]

DecSplit(neg, body, dot) ==
    DecParts(neg,
             IF dot < 0 THEN body ELSE SubSeq(body, 1, dot),
             IF dot < 0 THEN <<>> ELSE SubSeq(body, dot + 2, Len(body)))

\* float(v) of a str, as digits: a decimal literal gives its value, the other
\* strings the rows hold ("NA") give ValueError
FloatDigits(v) ==
    IF Len(v) > 0 /\ v[1] = "-" THEN DecSplit(TRUE, Tail(v), Find(Tail(v), <<".">>))
    ELSE DecSplit(FALSE, v, Find(v, <<".">>))

\* the digits of the number s + 1
RECURSIVE IncDigits(_)
IncDigits(s) ==
    IF Len(s) = 0 THEN <<"1">>
    ELSE IF s[Len(s)] = "9" THEN IncDigits(SubSeq(s, 1, Len(s) - 1)) \o <<"0">>
    ELSE SubSeq(s, 1, Len(s) - 1) \o <<DigitChar(DigitVal(s[Len(s)]) + 1)>>

\* the number whose digits are r, the last d of them its fraction digits
RoundSplit(r, d) ==
    [ip |-> StripLead(SubSeq(r, 1, Len(r) - d)), fp |-> SubSeq(r, Len(r) - d + 1, Len(r))]

\* ip.fp rounded to d fraction digits.  A number exactly half way is rounded
\* away from zero by round(); str.format rounds the binary value, which lies
\* on either side of it: the numbers formatted with d > 0 are never half way.
RoundDigits(ip, fp, d) ==
    RoundSplit(IF Len(fp) > d /\ DigitVal(fp[d + 1]) >= 5
               THEN IncDigits(ip \o SubSeq(fp, 1, d))
               ELSE ip \o SubSeq(fp \o Zeros(d), 1, d),
               d)

\* the "," option of str.format: a comma before every three digits
RECURSIVE Commas(_)
Commas(s) ==
    IF Len(s) <= 3 THEN s
    ELSE Commas(SubSeq(s, 1, Len(s) - 3)) \o <<",">> \o SubSeq(s, Len(s) - 2, Len(s))

FixedOf(neg, r, d, comma) ==
    (IF neg THEN <<"-">> ELSE <<>>)
      \o (IF r.ip = <<>> THEN <<"0">> ELSE IF comma THEN Commas(r.ip) ELSE r.ip)
      \o (IF d > 0 THEN <<".">> \o r.fp ELSE <<>>)

\* "{:,.<d>f}".format(x), or "{:.<d>f}" without the commas
Fixed(x, d, comma) == FixedOf(x.neg, RoundDigits(x.ip, x.fp, d), d, comma)

WholeOf(neg, r) ==
    IF r.ip = <<>> THEN <<"0">> ELSE (IF neg THEN <<"-">> ELSE <<>>) \o Commas(r.ip)

\* "{:,}".format(int(round(x)))
Whole(x) == WholeOf(x.neg, RoundDigits(x.ip, x.fp, 0))

\* s.strip() of a str whose only blanks are spaces
RECURSIVE strip(_)
strip(s) ==
    IF Len(s) > 0 /\ s[1] = " " THEN strip(Tail(s))
    ELSE IF Len(s) > 0 /\ s[Len(s)] = " " THEN strip(SubSeq(s, 1, Len(s) - 1))
    ELSE s

numnames ==
    << <<>>, <<>>,
       <<"m","i","l","l","i","o","n">>,
       <<"b","i","l","l","i","o","n">>,
       <<"t","r","i","l","l","i","o","n">>,
       <<"q","u","a","d","r","i","l","l","i","o","n">>,
       <<"q","u","i","n","t","i","l","l","i","o","n">> >>

Min(a, b) == IF a < b THEN a ELSE b

\* a wrong index: a number of three integer digits counts as thousands
MagnitudeIndexOffByOne(n) ==
    IF Len(n.ip) = 0 THEN 0 ELSE Min(Len(numnames) - 1, Len(n.ip) \div 3)

\* idx = max(0, min(len(numnames) - 1, int(floor(0 if n == 0 else
\* log10(abs(n)) / 3)))): floor(log10) of a number of k >= 1 integer digits is
\* k - 1, and negative below 1
MagnitudeIndex(n) ==
    IF Len(n.ip) = 0 THEN 0 ELSE Min(Len(numnames) - 1, (Len(n.ip) - 1) \div 3)

\* outnum = n / 10**k for a number of more than k integer digits
Scaled(n, k) ==
    [neg |-> n.neg,
     ip |-> SubSeq(n.ip, 1, Len(n.ip) - k),
     fp |-> StripTrail(SubSeq(n.ip, Len(n.ip) - k + 1, Len(n.ip)) \o n.fp)]

\* the rest of human_numbers, from "outstr = ..." on
HumanNumber(n, idx, decimal_places, whole_units_only) ==
    IF idx < 2
    THEN (IF whole_units_only # 0 THEN Whole(n)
          ELSE strip(Fixed(n, decimal_places, TRUE) \o <<" ">> \o numnames[idx + 1]))
    ELSE Fixed(Scaled(n, 3 * idx), decimal_places, TRUE) \o <<" ">> \o numnames[idx + 1]

\* human_numbers(num, decimal_places, whole_units_only) on the float n
human_numbers(n, decimal_places, whole_units_only) ==
    HumanNumber(n, MagnitudeIndex(n), decimal_places, whole_units_only)

-----------------------------------------------------------------------------
(* Per-file handlers.  Each is split at its loop: <name>_row is one        *)
(* iteration of "for row in inputdata" on the dict proc, <name>_output is  *)
(* what follows the loop.                                                  *)

EmptySlots == [adj |-> None, unadj |-> None]
YoySlots == [num |-> None, vol |-> None]

\* "if not proc.has_key(monthnum): proc[monthnum] = <empty>"
EnsureKey(p, k, empty) == IF has_key(p, k) THEN p ELSE Put(p, k, empty)

\* a wrong classifier: a row with an unrecognised label is taken for a row of
\* the first kind instead of being refused
ClassifyRowDefaultSlot(p, monthnum, value, lab, sub1, slot1, sub2, slot2) ==
    IF Contains(lab, sub2) /\ ~Contains(lab, sub1)
    THEN [exc |-> NoExc, proc |-> [p EXCEPT ![monthnum][slot2] = value]]
    ELSE [exc |-> NoExc, proc |-> [p EXCEPT ![monthnum][slot1] = value]]

\* the if/elif/else on the lower-cased label of a flat row: the slot of the
\* first substring found is written, else TypeError is raised
ClassifyRow(p, monthnum, value, lab, sub1, slot1, sub2, slot2) ==
    IF Contains(lab, sub1)
    THEN [exc |-> NoExc, proc |-> [p EXCEPT ![monthnum][slot1] = value]]
    ELSE IF Contains(lab, sub2)
    THEN [exc |-> NoExc, proc |-> [p EXCEPT ![monthnum][slot2] = value]]
    ELSE [exc |-> "TypeError", proc |-> p]

\* a wrong loop body: the record of the month is replaced on every row
SummaryRowOverwrite(p, row, mn) ==
    IF mn.exc # NoExc THEN [exc |-> mn.exc, proc |-> p]
    ELSE ClassifyRow(Put(p, mn.val, EmptySlots), mn.val, row[2], Lower(row[3]),
                     S_unadjust, "unadj", S_seasonal, "adj")

\* a wrong loop body: "seasonal" is looked for before "unadjust"
SummaryRowSeasonalFirst(p, row, mn) ==
    IF mn.exc # NoExc THEN [exc |-> mn.exc, proc |-> p]
    ELSE ClassifyRow(EnsureKey(p, mn.val, EmptySlots), mn.val, row[2], Lower(row[3]),
                     S_seasonal, "adj", S_unadjust, "unadj")

\* the loop body of process_file_summary once monthnum = int(monthstr) ran
SummaryRow(p, row, mn) ==
    IF mn.exc # NoExc THEN [exc |-> mn.exc, proc |-> p]
    ELSE ClassifyRow(EnsureKey(p, mn.val, EmptySlots), mn.val, row[2], Lower(row[3]),
                     S_unadjust, "unadj", S_seasonal, "adj")

\* process_file_summary, one row (monthstr, value, is_adj_str)
process_file_summary_row(p, row) == SummaryRow(p, row, int(row[1]))

\* some month of the dict has no date (actual_date raises)
BadDate(p) == \E k \in DOMAIN p : actual_date(k, DATE_SCHEMA).exc # NoExc

\* "if len(data) > 1: ... return True, data, json" with the chart of data[1:]
ReturnWithChart(data, json) ==
    IF json.exc # NoExc THEN Raise(json.exc) ELSE Return(TRUE, data, json.out)

\* the rows of a flat dict whose records have the slots s1, s2
FlatRows(p, keys, s1, s2) ==
    [i \in DOMAIN keys |->
        <<keys[i], actual_date(keys[i], DATE_SCHEMA).str, p[keys[i]][s1], p[keys[i]][s2]>>]

SummaryReturn(data) ==
    IF Len(data) > 1 THEN ReturnWithChart(data, json_for_line_chart(Tail(data)))
    ELSE Return(TRUE, <<>>, <<>>)

process_file_summary_output(p, output_schema) ==
    IF BadDate(p) THEN Raise("ValueError")
    ELSE SummaryReturn(<<output_schema>>
                         \o sort(FlatRows(p, KeysSeq(DOMAIN p), "adj", "unadj")))

\* the two setdefault-like steps of process_group_file
EnsureGroup(p, monthnum, group) ==
    [p EXCEPT ![monthnum] = EnsureKey(@, group, EmptySlots)]

\* the if/elif/else on the label of a grouped row
ClassifyGroupRow(p, monthnum, group, value, lab) ==
    IF Contains(lab, S_unadjust)
    THEN [exc |-> NoExc, proc |-> [p EXCEPT ![monthnum][group].unadj = value]]
    ELSE IF Contains(lab, S_seasonal)
    THEN [exc |-> NoExc, proc |-> [p EXCEPT ![monthnum][group].adj = value]]
    ELSE [exc |-> "TypeError", proc |-> p]

GroupFileRow(p, row, mn) ==
    IF mn.exc # NoExc THEN [exc |-> mn.exc, proc |-> p]
    ELSE ClassifyGroupRow(EnsureGroup(EnsureKey(p, mn.val, <<>>), mn.val, row[3]),
                          mn.val, row[3], row[2], Lower(row[4]))

\* process_group_file, one row (monthstr, value, group, is_adj_str)
process_group_file_row(p, row) == GroupFileRow(p, row, int(row[1]))

\* "Parse for any text fixes required"
TextFix(groupname) ==
    IF groupname \in DOMAIN TEXT_FIXES THEN TEXT_FIXES[groupname] ELSE groupname

\* the output rows of one month of process_group_file, in items() order
GroupRowsOfMonth(p, monthnum, gs) ==
    [i \in DOMAIN gs |->
        <<monthnum, actual_date(monthnum, DATE_SCHEMA).str,
          p[monthnum][gs[i]].adj, p[monthnum][gs[i]].unadj, TextFix(gs[i])>>]

RECURSIVE GroupRows(_, _)
GroupRows(p, keys) ==
    IF Len(keys) = 0 THEN <<>>
    ELSE GroupRowsOfMonth(p, Head(keys), KeysSeq(DOMAIN p[Head(keys)]))
           \o GroupRows(p, Tail(keys))

GroupFileReturn(data) ==
    IF Len(data) > 1 THEN ReturnWithChart(data, json_for_group_line_chart(Tail(data)))
    ELSE Return(TRUE, <<>>, <<>>)

process_group_file_output(p, output_schema) ==
    IF BadDate(p) THEN Raise("ValueError")
    ELSE GroupFileReturn(<<output_schema>> \o sort(GroupRows(p, KeysSeq(DOMAIN p))))

\* "if group in group_names: proc[monthnum][group] = value else: raise"
YoyGroupWrite(p, monthnum, group, value, group_names) ==
    IF group \in SeqToSet(group_names)
    THEN [exc |-> NoExc, proc |-> [p EXCEPT ![monthnum][group] = value]]
    ELSE [exc |-> "TypeError", proc |-> p]

YoyGroupRow(p, row, group_names, mn) ==
    IF mn.exc # NoExc THEN [exc |-> mn.exc, proc |-> p]
    ELSE YoyGroupWrite(EnsureKey(p, mn.val, [g \in SeqToSet(group_names) |-> None]),
                       mn.val, row[3], row[2], group_names)

\* process_group_yoy_groups, one row (monthstr, value, group)
process_group_yoy_groups_row(p, row, group_names) ==
    YoyGroupRow(p, row, group_names, int(row[1]))

YoyGroupRows(p, keys, group_names) ==
    [i \in DOMAIN keys |->
        <<keys[i], actual_date(keys[i], DATE_SCHEMA).str>>
          \o [j \in DOMAIN group_names |-> p[keys[i]][group_names[j]]]]

\* "if len(data) > 1: return True, data" else "return True, []"
YoyGroupsReturn(data) ==
    IF Len(data) > 1 THEN Return(TRUE, data, <<>>) ELSE Return(TRUE, <<>>, <<>>)

\* process_group_yoy_groups after its loop: (cond, data)
process_group_yoy_groups_output(p, group_names, output_schema) ==
    IF BadDate(p) THEN Raise("ValueError")
    ELSE YoyGroupsReturn(<<output_schema>>
                           \o sort(YoyGroupRows(p, KeysSeq(DOMAIN p), group_names)))

\* "json = []; if len(data) > 1: json = json_for_group_bar_chart(...)"
YoyWithChart(r, cols, out_names) ==
    IF r.exc # NoExc THEN r
    ELSE IF Len(r.data) > 1
    THEN ReturnWithChart(r.data, json_for_group_bar_chart(Tail(r.data), cols, out_names))
    ELSE Return(r.cond, r.data, <<>>)

\* List objects.  A list variable of a handler is a reference ref into a
\* heap that maps the module-level names, and "local" for the one list a
\* helper creates, to list values; a write through the reference changes
\* the object it names.

\* a wrong list(): no copy is made, the result is the module-level object
ListAliased(t, name) == [ref |-> name, heap |-> t]

\* x = list(<name>): a new list object with the items of the module-level one
list(t, name) ==
    [ref |-> "local",
     heap |-> [n \in DOMAIN t \cup {"local"} |-> IF n = "local" THEN t[name] ELSE t[n]]]

\* x[-1] = x[-1].format(arg), in place
FormatLast(x, arg) ==
    [x EXCEPT !.heap[x.ref] = [@ EXCEPT ![Len(@)] = Format(@, arg)]]

\* x += items, in place
Extend(x, items) == [x EXCEPT !.heap[x.ref] = @ \o items]

\* the items of the list x refers to
Items(x) == x.heap[x.ref]

\* the module-level lists once the helper returned and its local is gone
Globals(x) == [n \in DOMAIN StaticTables |-> x.heap[n]]

\* the header without the column of the last group
YoySchemaShort(cols) ==
    tables.GROUP_YOY_OUTPUT_SCHEMA
      \o [i \in 1..(Len(cols) - 1) |-> Format(S_yoy_postfix, cols[i])]

\* output_schema = list(GROUP_YOY_OUTPUT_SCHEMA)
\* output_schema += [postfix.format(gname) for gname in <type>_YOY_COLS]
YoySchemaList(t, cols) ==
    Extend(list(t, "GROUP_YOY_OUTPUT_SCHEMA"),
           [i \in DOMAIN cols |-> Format(S_yoy_postfix, cols[i])])

\* the output_schema a process_group_<type>_yoy helper passes on
YoySchema(cols) == Items(YoySchemaList(tables, cols))

\* process_group_<type>_yoy after the loop of process_group_yoy_groups
process_group_yoy_output(p, group_names, cols, out_names) ==
    YoyWithChart(process_group_yoy_groups_output(p, group_names, YoySchema(cols)),
                 cols, out_names)

YoySummaryRow(p, row, mn) ==
    IF mn.exc # NoExc THEN [exc |-> mn.exc, proc |-> p]
    ELSE ClassifyRow(EnsureKey(p, mn.val, YoySlots), mn.val, row[2], Lower(row[3]),
                     S_number, "num", S_volume, "vol")

\* process_yoy_summary, one row (monthstr, value, type_str)
process_yoy_summary_row(p, row) == YoySummaryRow(p, row, int(row[1]))

YoySummaryReturn(data) ==
    IF Len(data) > 1 THEN ReturnWithChart(data, json_for_bar_chart(Tail(data)))
    ELSE Return(TRUE, <<>>, <<>>)

process_yoy_summary_output(p, output_schema) ==
    IF BadDate(p) THEN Raise("ValueError")
    ELSE YoySummaryReturn(<<output_schema>>
                            \o sort(FlatRows(p, KeysSeq(DOMAIN p), "num", "vol")))

\* data.append([row[0], FIPS_CODES[int(row[0])], row[1]])
MapRow(p, row, code) ==
    IF code.exc # NoExc THEN [exc |-> code.exc, proc |-> p]
    ELSE IF code.val \notin DOMAIN FIPS_CODES THEN [exc |-> "KeyError", proc |-> p]
    ELSE [exc |-> NoExc, proc |-> Append(p, <<row[1], FIPS_CODES[code.val], row[2]>>)]

\* process_map, one row (state, value); proc is the list data after its header
process_map_row(p, row) == MapRow(p, row, int(row[1]))

\* process_map after the loop: the rows stay in the order of the file
process_map_output(p, output_schema) ==
    IF Len(p) > 0 THEN ReturnWithChart(<<output_schema>> \o p, json_for_tile_map(p))
    ELSE Return(TRUE, <<>>, <<>>)

SummaryHandlers == {"process_num_summary", "process_vol_summary"}
GroupVolHandlers == {"process_group_age_vol", "process_group_income_vol", "process_group_score_vol"}
GroupYoyHandlers == {"process_group_age_yoy", "process_group_income_yoy", "process_group_score_yoy"}
YoySummaryHandlers == {"process_yoy_summary"}
MapHandlers == {"process_map"}
RowHandlers ==
    SummaryHandlers \cup GroupVolHandlers \cup GroupYoyHandlers \cup YoySummaryHandlers
      \cup MapHandlers
\* the handlers that aggregate by month: their rows start with a month number
MonthHandlers == RowHandlers \ MapHandlers

\* the group name a process_group_<type>_vol helper formats into the schema
GroupOf(h) ==
    CASE h = "process_group_age_vol" -> AGE
      [] h = "process_group_income_vol" -> INCOME
      [] h = "process_group_score_vol" -> SCORE

\* schema = list(GROUP_VOL_OUTPUT_SCHEMA); schema[-1] = schema[-1].format(group)
GroupVolSchemaList(t, h) == FormatLast(list(t, "GROUP_VOL_OUTPUT_SCHEMA"), GroupOf(h))

\* the schema a process_group_<type>_vol helper passes on
GroupVolSchema(h) == Items(GroupVolSchemaList(tables, h))

\* the lists a process_group_<type>_yoy helper passes on
YoyIn(h) ==
    CASE h = "process_group_age_yoy" -> AGE_YOY_IN
      [] h = "process_group_income_yoy" -> INCOME_YOY_IN
      [] h = "process_group_score_yoy" -> SCORE_YOY_IN
YoyCols(h) ==
    CASE h = "process_group_age_yoy" -> AGE_YOY_COLS
      [] h = "process_group_income_yoy" -> INCOME_YOY_COLS
      [] h = "process_group_score_yoy" -> SCORE_YOY_COLS
YoyJson(h) ==
    CASE h = "process_group_age_yoy" -> AGE_YOY_JSON
      [] h = "process_group_income_yoy" -> INCOME_YOY_JSON
      [] h = "process_group_score_yoy" -> SCORE_YOY_JSON

\* one iteration of the loop of handler h
HandlerRow(h, p, row) ==
    CASE h \in SummaryHandlers -> process_file_summary_row(p, row)
      [] h \in GroupVolHandlers -> process_group_file_row(p, row)
      [] h \in GroupYoyHandlers -> process_group_yoy_groups_row(p, row, YoyIn(h))
      [] h \in YoySummaryHandlers -> process_yoy_summary_row(p, row)
      [] h \in MapHandlers -> process_map_row(p, row)

\* handler h after its loop
HandlerOutput(h, p) ==
    CASE h = "process_num_summary" ->
           process_file_summary_output(p, tables.SUMMARY_NUM_OUTPUT_SCHEMA)
      [] h = "process_vol_summary" ->
           process_file_summary_output(p, tables.SUMMARY_VOL_OUTPUT_SCHEMA)
      [] h \in GroupVolHandlers -> process_group_file_output(p, GroupVolSchema(h))
      [] h \in GroupYoyHandlers -> process_group_yoy_output(p, YoyIn(h), YoyCols(h), YoyJson(h))
      [] h \in YoySummaryHandlers ->
           process_yoy_summary_output(p, tables.YOY_SUMMARY_OUTPUT_SCHEMA)
      [] h \in MapHandlers -> process_map_output(p, tables.MAP_OUTPUT_SCHEMA)

\* the module-level lists after the handler h ran on the lists t: the helpers
\* of the grouped files build their schema before the file is read, the other
\* handlers only put the list they were given at the head of data
TablesAfter(t, h) ==
    CASE h \in GroupVolHandlers -> Globals(GroupVolSchemaList(t, h))
      [] h \in GroupYoyHandlers -> Globals(YoySchemaList(t, YoyCols(h)))
      [] OTHER -> t

\* "for row in inputdata" from the state st = (exc, proc) on
RECURSIVE HandlerLoop(_, _, _)
HandlerLoop(h, st, rows) ==
    IF Len(rows) = 0 \/ st.exc # NoExc THEN st
    ELSE HandlerLoop(h, HandlerRow(h, st.proc, Head(rows)), Tail(rows))

AfterLoop(h, l) == IF l.exc # NoExc THEN Raise(l.exc) ELSE HandlerOutput(h, l.proc)

\* FILE_PREFIXES[prefix](filepath) on a file whose data rows are rows
CallHandler(h, rows) == AfterLoop(h, HandlerLoop(h, [exc |-> NoExc, proc |-> <<>>], rows))

-----------------------------------------------------------------------------
(* Input rows tried *)

L_SeasAdj == <<"S","e","a","s","o","n","a","l","l","y"," ","A","d","j","u","s","t","e","d">>
L_Unadj == <<"U","n","a","d","j","u","s","t","e","d">>
L_UNADJ == <<"U","N","A","D","J","U","S","T","E","D">>
L_SeasUnadj == <<"S","e","a","s","o","n","a","l","l","y"," ","U","n","a","d","j","u","s","t","e","d">>
L_Other == <<"O","t","h","e","r">>
L_Number == <<"N","u","m","b","e","r"," ","o","f"," ","L","o","a","n","s">>
L_Volume == <<"D","O","L","L","A","R"," ","V","O","L","U","M","E">>
L_Inquiry == <<"I","n","q","u","i","r","y"," ","I","n","d","e","x">>
L_Tightness == <<"C","r","e","d","i","t"," ","T","i","g","h","t","n","e","s","s"," ","I","n","d","e","x">>
G_Bogus == <<"B","o","g","u","s">>

SummaryPool ==
    { <<<<"0">>, <<"1",".","5">>, L_SeasAdj>>,
      <<<<"0">>, <<"N","A">>, L_SeasAdj>>,
      <<<<"0">>, <<"3",".","0">>, L_Unadj>>,
      <<<<"1">>, <<"2",".","0">>, L_SeasAdj>>,
      <<<<"1">>, <<"3",".","0">>, L_UNADJ>>,
      <<<<"1">>, <<"N","A">>, L_SeasUnadj>>,
      <<<<"0">>, <<"1",".","5">>, L_Other>>,
      <<<<"x">>, <<"1",".","5">>, L_SeasAdj>> }

GroupVolPool ==
    { <<<<"0">>, <<"1",".","5">>, <<"3","0"," ","-"," ","4","4">>, L_SeasAdj>>,
      <<<<"0">>, <<"3",".","0">>, <<"3","0"," ","-"," ","4","4">>, L_Unadj>>,
      <<<<"0">>, <<"2",".","0">>, <<"A","g","e"," ","3","0","-","4","4">>, L_SeasAdj>>,
      <<<<"0">>, <<"3",".","0">>, <<"A","g","e"," ","3","0","-","4","4">>, L_Unadj>>,
      <<<<"0">>, <<"N","A">>, <<"L","o","w">>, L_SeasAdj>>,
      <<<<"0">>, <<"2",".","0">>, <<"L","o","w">>, L_UNADJ>>,
      <<<<"1">>, <<"1",".","5">>, <<"L","o","w">>, L_SeasAdj>>,
      <<<<"1">>, <<"3",".","0">>, <<"L","o","w">>, L_SeasUnadj>>,
      <<<<"1">>, <<"1",".","5">>, <<"L","o","w">>, L_Other>> }

YoySummaryPool ==
    { <<<<"0">>, <<"1",".","5">>, L_Number>>,
      <<<<"0">>, <<"2",".","0">>, L_Volume>>,
      <<<<"0">>, <<"N","A">>, L_Number>>,
      <<<<"1">>, <<"2",".","0">>, L_Number>>,
      <<<<"1">>, <<"3",".","0">>, L_Volume>>,
      <<<<"0">>, <<"1",".","5">>, L_Inquiry>>,
      <<<<"1">>, <<"1",".","5">>, L_Tightness>>,
      <<<<"0">>, <<"1",".","5">>, L_Other>> }

\* rows of a grouped YOY file: month 0 for every legal group, and a few more
YoyGroupPool(group_names) ==
    { <<<<"0">>, <<"1",".","5">>, group_names[i]>> : i \in DOMAIN group_names }
      \cup { <<<<"0">>, <<"N","A">>, group_names[1]>>,
             <<<<"1">>, <<"2",".","0">>, group_names[1]>>,
             <<<<"1">>, <<"3",".","0">>, group_names[2]>>,
             <<<<"0">>, <<"1",".","5">>, G_Bogus>> }

\* rows of a map file: a state code and a share
MapPool ==
    { <<<<"1">>, <<"0",".","4","5","6","7">>>>,
      <<<<"2">>, <<"N","A">>>>,
      <<<<"0","6">>, <<"0",".","5">>>>,
      <<<<"5","6">>, <<"-","0",".","0","1","5">>>>,
      <<<<"1","1">>, <<"0",".","1","2","3","4","6">>>>,
      <<<<"1">>, <<"1">>>>,
      <<<<"3">>, <<"0",".","1">>>>,
      <<<<"x">>, <<"0",".","1">>>> }

RowPool(h) ==
    CASE h \in SummaryHandlers -> SummaryPool
      [] h \in GroupVolHandlers -> GroupVolPool
      [] h \in GroupYoyHandlers -> YoyGroupPool(YoyIn(h))
      [] h \in YoySummaryHandlers -> YoySummaryPool
      [] h \in MapHandlers -> MapPool

MaxRows == 4

-----------------------------------------------------------------------------
(* Specification of one handler call, row by row.  The file's rows are the *)
(* set inputdata; the loop takes them in any order, so every order of the  *)
(* file is a behaviour.                                                    *)

IdleDate == month = 0 /\ date_out = None /\ cpc = "idle"
IdleNum ==
    /\ num = None /\ places = 1 /\ whole_units = 1
    /\ hn_out = None /\ hpc = "idle"
IdleCodec == IdleDate /\ IdleNum
IdlePipe ==
    /\ handler = "none" /\ inputdata = {} /\ todo = {} /\ proc = <<>>
    /\ lastRow = <<>> /\ ppc = "idle" /\ pexc = NoExc /\ result = None
IdleDriver ==
    /\ inputfiles = <<>> /\ fidx = 0 /\ successes = <<>> /\ failures = <<>>
    /\ written = <<>> /\ dpc = "idle" /\ dexc = NoExc /\ lastRun = [kind |-> "none"]

InitAgg ==
    /\ tables = StaticTables
    /\ handler \in RowHandlers
    /\ inputdata \in {S \in SUBSET RowPool(handler) : Cardinality(S) <= MaxRows}
    /\ todo = inputdata
    /\ proc = <<>>
    /\ lastRow = <<>>
    /\ ppc = "rows"
    /\ pexc = NoExc
    /\ result = None
    /\ IdleCodec /\ IdleDriver

\* one iteration of "for row in inputdata"
ReadRow ==
    /\ ppc = "rows"
    /\ \E row \in todo :
         \E r \in {HandlerRow(handler, proc, row)} :
            /\ lastRow' = row
            /\ todo' = todo \ {row}
            /\ proc' = r.proc
            /\ pexc' = r.exc
            /\ ppc' = IF r.exc # NoExc THEN "raised" ELSE "rows"
    /\ UNCHANGED <<handler, inputdata, result>>
    /\ UNCHANGED <<tables, codecVars, driverVars>>

\* the code after the loop: pivot, sort, header, chart structure, return
Output ==
    /\ ppc = "rows"
    /\ todo = {}
    /\ \E r \in {HandlerOutput(handler, proc)} :
          /\ pexc' = r.exc
          /\ ppc' = IF r.exc # NoExc THEN "raised" ELSE "done"
          /\ result' = IF r.exc # NoExc THEN None ELSE r
    /\ tables' = TablesAfter(tables, handler)
    /\ UNCHANGED <<handler, inputdata, todo, proc, lastRow>>
    /\ UNCHANGED <<codecVars, driverVars>>

NextAgg == ReadRow \/ Output

SpecAgg == InitAgg /\ [][NextAgg]_vars

-----------------------------------------------------------------------------
(* Specification of one call of actual_date *)

MaxMonth == 110
MinMonth == 30

\* month indices tried: a window around month 0 and the edges of the ranges
\* datetime.date and strftime accept
LastMonthOfMaxYear == (MAXYEAR - BASE_YEAR) * 12 + 11
FirstMonthBefore1900 == (STRFTIME_MINYEAR - BASE_YEAR) * 12 - 1
MonthInputs == (0 - MinMonth)..MaxMonth
                 \cup {LastMonthOfMaxYear, LastMonthOfMaxYear + 1,
                       FirstMonthBefore1900, FirstMonthBefore1900 + 1}

InitDate ==
    /\ tables = StaticTables
    /\ month \in MonthInputs
    /\ date_out = None
    /\ cpc = "call"
    /\ IdleNum /\ IdlePipe /\ IdleDriver

\* the call actual_date(month)
CallActualDate ==
    /\ cpc = "call"
    /\ date_out' = actual_date(month, DATE_SCHEMA)
    /\ cpc' = "ret"
    /\ UNCHANGED <<tables, month, numVars, pipeVars, driverVars>>

NextDate == CallActualDate

SpecDate == InitDate /\ [][NextDate]_vars

-----------------------------------------------------------------------------
(* Specification of one call of human_numbers *)

MaxZeros == 19

\* the numbers tried: a few leading digits, a run of zeros, a fraction, a
\* sign; no number is half way between two values of the digits printed
LeadDigits == { <<"1">>, <<"6","7">>, <<"9","9","9">>, <<"1","2","3","4">> }
Fractions == { <<>>, <<".","0","1","2">>, <<".","9">>, <<".","4","6">> }
NumInputs ==
    { sign \o lead \o Zeros(k) \o frac :
        sign \in {<<>>, <<"-">>}, lead \in LeadDigits, k \in 0..MaxZeros, frac \in Fractions }
      \cup { <<"0">>, <<"0",".","4">>, <<"N","A">> }

InitNum ==
    /\ tables = StaticTables
    /\ num \in NumInputs
    /\ places \in 0..2
    /\ whole_units \in {0, 1}
    /\ hn_out = None
    /\ hpc = "call"
    /\ IdleDate /\ IdlePipe /\ IdleDriver

\* the result of the call on float(num), or the exception of float(num)
HumanNumbersOf(f, dp, whole) ==
    IF f.exc # NoExc THEN [exc |-> f.exc]
    ELSE [exc |-> NoExc, str |-> human_numbers(f.val, dp, whole)]

\* the call human_numbers(float(num), decimal_places, whole_units_only)
CallHumanNumbers ==
    /\ hpc = "call"
    /\ hn_out' = HumanNumbersOf(FloatDigits(num), places, whole_units)
    /\ hpc' = "ret"
    /\ UNCHANGED <<tables, num, places, whole_units, dateVars, pipeVars, driverVars>>

NextNum == CallHumanNumbers

SpecNum == InitNum /\ [][NextNum]_vars

-----------------------------------------------------------------------------
(* Specification of the batch driver process_data_files.  The directories  *)
(* tried hold summary, group-volume and YOY files, a file of an unknown    *)
(* type, a file naming no market, a file that is not a csv, a map file and *)
(* the data snapshot file.                                                 *)

MaxFiles == 2
MaxFileRows == 2

F_num_AUT == <<"n","u","m","_","d","a","t","a","_","A","U","T",".","c","s","v">>
F_NUM_PER == <<"N","U","M","_","D","A","T","A","_","P","E","R",".","C","S","V">>
F_vol_age_CRC == <<"v","o","l","u","m","e","_","d","a","t","a","_","a","g","e","_","g","r","o","u","p","_","C","R","C",".","c","s","v">>
F_yoy_all_MTG == <<"y","o","y","_","d","a","t","a","_","a","l","l","_","M","T","G",".","c","s","v">>
F_yoy_score_STU == <<"y","o","y","_","d","a","t","a","_","s","c","o","r","e","_","l","e","v","e","l","_","S","T","U",".","c","s","v">>
F_foo_AUT == <<"f","o","o","_","d","a","t","a","_","A","U","T",".","c","s","v">>
F_readme == <<"r","e","a","d","m","e",".","c","s","v">>
F_notes == <<"n","o","t","e","s","_","H","L","C",".","t","x","t">>
F_map_MTG == <<"m","a","p","_","d","a","t","a","_","M","T","G",".","c","s","v">>
F_snapshot == <<"d","a","t","a","_","s","n","a","p","s","h","o","t",".","c","s","v">>
F_vol_income_AUT == <<"v","o","l","u","m","e","_","d","a","t","a","_","i","n","c","o","m","e","_","l","e","v","e","l","_","A","U","T",".","c","s","v">>
DirPool == {F_num_AUT, F_NUM_PER, F_vol_age_CRC, F_yoy_all_MTG, F_yoy_score_STU,
            F_foo_AUT, F_readme, F_notes, F_map_MTG, F_snapshot, F_vol_income_AUT}

\* os.listdir(path): the entries of a directory, in some order
Listings ==
    {l \in UNION {[1..n -> DirPool] : n \in 0..MaxFiles} :
        \A i, j \in DOMAIN l : i # j => l[i] # l[j]}

IsCsv(f) == EndsWith(Lower(f), S_dot_csv)

\* get_csv_list(path) on a directory of regular files
get_csv_list(listing) == SelectSeq(listing, IsCsv)

\* find_market(input): the name of an abbreviation found in input, None when
\* there is none.  The code returns the first match in the order items()
\* visits the dict, which it does not fix: every match is a possible result.
find_market(input) ==
    IF \E i \in DOMAIN MARKET_NAMES : Contains(input, MARKET_NAMES[i][1])
    THEN {MARKET_NAMES[i][2] :
            i \in {j \in DOMAIN MARKET_NAMES : Contains(input, MARKET_NAMES[j][1])}}
    ELSE {None}

\* s.replace(old, new): every occurrence, left to right
RECURSIVE Replace(_, _, _)
Replace(s, old, new) ==
    IF Find(s, old) < 0 THEN s
    ELSE SubSeq(s, 1, Find(s, old)) \o new
           \o Replace(SubSeq(s, Find(s, old) + Len(old) + 1, Len(s)), old, new)

\* filename[:MKT_SFX_LEN].lower()
Prefix(filename) ==
    Lower(SubSeq(filename, 1, IF Len(filename) + MKT_SFX_LEN > 0
                              THEN Len(filename) + MKT_SFX_LEN ELSE 0))

\* os.path.join(outputpath, market, filename) below the output directory;
\* no market name holds ".csv", so replace() acts on the file name only
CsvPath(market, filename) == <<market, filename>>
JsonPath(market, filename) == <<market, Replace(filename, S_dot_csv, S_dot_json)>>

\* save_csv and save_json: the file at the path is (over)written
save_csv(w, path) == Put(w, path, "csv")
save_json(w, path) == Put(w, path, "json")

\* str.format(*args) on a template of "{}" fields: each field, left to
\* right, is replaced by the next argument
RECURSIVE FormatAll(_, _)
FormatAll(tmpl, args) ==
    IF Len(args) = 0 \/ Find(tmpl, S_braces) < 0 THEN tmpl
    ELSE SubSeq(tmpl, 1, Find(tmpl, S_braces)) \o Head(args)
           \o FormatAll(SubSeq(tmpl, Find(tmpl, S_braces) + 3, Len(tmpl)), Tail(args))

\* yoy > 0 and abs(yoy) on a float
IsPositive(x) == ~x.neg /\ (x.ip # <<>> \/ x.fp # <<>>)
abs(x) == [x EXCEPT !.neg = FALSE]

\* out_html = SNAPSHOT_HTML.format(orig_fmt, orig_desc, vol_fmt, vol_desc,
\*                                 yoy_fmt, yoy_desc)
out_html(market, orig, vol, yoy) ==
    FormatAll(SNAPSHOT_HTML,
              << Replace(human_numbers(orig, 1, 1), S_space, S_nbsp),
                 HTML_MKT_NAMES[market][1],
                 Replace(human_numbers(vol, 1, 1), S_space, S_nbsp),
                 HTML_MKT_NAMES[market][2],
                 Fixed(abs(yoy), 1, FALSE),
                 HTML_DESC[IF IsPositive(yoy) THEN 2 ELSE 1] >>)

\* output_mkt = find_market(market) for a key of HTML_MKT_NAMES: the key is
\* one abbreviation, so one name only can be found
output_mkt(market) == CHOOSE m \in find_market(market) : TRUE

\* a wrong loop body: the snippet is saved by the market code of the row
SnapshotRowByCode(data, row, mn, orig, vol, yoy) ==
    IF mn.exc # NoExc THEN [exc |-> mn.exc]
    ELSE IF orig.exc # NoExc \/ vol.exc # NoExc \/ yoy.exc # NoExc
    THEN [exc |-> "ValueError"]
    ELSE IF actual_date(mn.val, SNAPSHOT_MONTH_SCHEMA).exc # NoExc
    THEN [exc |-> actual_date(mn.val, SNAPSHOT_MONTH_SCHEMA).exc]
    ELSE IF row[1] \notin DOMAIN HTML_MKT_NAMES THEN [exc |-> "KeyError"]
    ELSE [exc |-> NoExc,
          data |-> Put(data, row[1], out_html(row[1], orig.val, vol.val, yoy.val))]

\* the loop body of process_snapshot_inputdata once the four conversions of
\* the row ran: the conversions raise first, then actual_date, then the
\* lookup of the descriptors; else the snippet is saved by market
SnapshotRow(data, row, mn, orig, vol, yoy) ==
    IF mn.exc # NoExc THEN [exc |-> mn.exc]
    ELSE IF orig.exc # NoExc \/ vol.exc # NoExc \/ yoy.exc # NoExc
    THEN [exc |-> "ValueError"]
    ELSE IF actual_date(mn.val, SNAPSHOT_MONTH_SCHEMA).exc # NoExc
    THEN [exc |-> actual_date(mn.val, SNAPSHOT_MONTH_SCHEMA).exc]
    ELSE IF row[1] \notin DOMAIN HTML_MKT_NAMES THEN [exc |-> "KeyError"]
    ELSE [exc |-> NoExc,
          data |-> Put(data, output_mkt(row[1]),
                       out_html(row[1], orig.val, vol.val, yoy.val))]

\* process_snapshot_inputdata, one row (market, monthnum, orig, vol, yoy)
process_snapshot_row(data, row) ==
    SnapshotRow(data, row, int(row[2]), FloatDigits(row[3]), FloatDigits(row[4]),
                FloatDigits(row[5]))

\* "for row in inputdata" on the dict data
RECURSIVE SnapshotLoop(_, _)
SnapshotStep(r, rest) == IF r.exc # NoExc THEN r ELSE SnapshotLoop(r.data, rest)
SnapshotLoop(data, rows) ==
    IF Len(rows) = 0 THEN [exc |-> NoExc, data |-> data]
    ELSE SnapshotStep(process_snapshot_row(data, Head(rows)), Tail(rows))

\* process_snapshot_inputdata(inputdata): the dict market name -> snippet
process_snapshot_inputdata(rows) == SnapshotLoop(<<>>, rows)

\* "for market, snippet in snippets.iteritems()": the snippet of each market
\* is written to <market>/data_snapshot.html
SnapshotSaved(w, snippets) ==
    [p \in DOMAIN w \cup {<<m, SNAPSHOT_FNAME_HTML>> : m \in DOMAIN snippets} |->
        IF p[2] = SNAPSHOT_FNAME_HTML /\ p[1] \in DOMAIN snippets THEN "html" ELSE w[p]]
\* the rows of the files tried, by handler
FileRowPool(h) ==
    CASE h \in SummaryHandlers ->
           { <<<<"0">>, <<"1",".","5">>, L_SeasAdj>>, <<<<"0">>, <<"3",".","0">>, L_Unadj>>,
             <<<<"0">>, <<"2",".","0">>, L_Other>>, <<<<"x">>, <<"1",".","5">>, L_SeasAdj>> }
      [] h \in GroupVolHandlers ->
           { <<<<"0">>, <<"1",".","5">>, AGE_YOY_IN[1], L_SeasAdj>>,
             <<<<"0">>, <<"3",".","0">>, AGE_YOY_IN[1], L_Unadj>>,
             <<<<"0">>, <<"2",".","0">>, AGE_YOY_IN[1], L_Other>>,
             <<<<"x">>, <<"1",".","5">>, AGE_YOY_IN[1], L_SeasAdj>> }
      [] h \in YoySummaryHandlers ->
           { <<<<"0">>, <<"1",".","5">>, L_Number>>, <<<<"0">>, <<"2",".","0">>, L_Volume>>,
             <<<<"1">>, <<"1",".","5">>, L_Inquiry>>, <<<<"1">>, <<"1",".","5">>, L_Other>> }
      [] h \in GroupYoyHandlers ->
           { <<<<"0">>, <<"1",".","5">>, YoyIn(h)[1]>>, <<<<"0">>, <<"N","A">>, YoyIn(h)[2]>>,
             <<<<"1">>, <<"2",".","0">>, G_Bogus>> }
      [] h \in MapHandlers ->
           { <<<<"1">>, <<"0",".","5">>>>, <<<<"2">>, <<"N","A">>>>, <<<<"3">>, <<"0",".","1">>>> }

\* the rows of the data snapshot files tried
SnapshotRowPool ==
    { <<<<"A","U","T">>, <<"0">>, <<"1","2","3","4","0","0","0">>,
        <<"2","5","0","0","0","0","0","0","0","0","0">>, <<"3",".","5">>>>,
      <<<<"A","U","T">>, <<"1">>, <<"6","7">>, <<"1","0","0","0">>, <<"-","2",".","0">>>>,
      <<<<"C","R","C">>, <<"0">>, <<"9","9","9","9","9","9">>, <<"1","5","0","0","0","0","0">>,
        <<"0">>>>,
      <<<<"X","Y","Z">>, <<"0">>, <<"1">>, <<"1">>, <<"1">>>>,
      <<<<"M","T","G">>, <<"0">>, <<"N","A">>, <<"1">>, <<"1">>>> }

\* load_csv(filepath) of a data snapshot file
SnapshotContents == UNION {[1..n -> SnapshotRowPool] : n \in 0..MaxFileRows}

\* load_csv(filepath): the data rows of a file
Contents(h) == UNION {[1..n -> FileRowPool(h)] : n \in 0..MaxFileRows}

NoRun == [kind |-> "none"]

Init ==
    /\ \E listing \in Listings : inputfiles = get_csv_list(listing)
    /\ fidx = 0
    /\ successes = <<>>
    /\ failures = <<>>
    /\ written = <<>>
    /\ dpc = "loop"
    /\ dexc = NoExc
    /\ lastRun = NoRun
    /\ tables = StaticTables
    /\ IdleCodec /\ IdlePipe

\* the file the for loop is at
CurrentFile == inputfiles[fidx + 1]
InLoop == dpc = "loop" /\ fidx < Len(inputfiles)

\* a wrong iteration on a file naming no market: the file is passed over
\* without being recorded
NoMarketUnrecorded ==
    /\ InLoop
    /\ None \in find_market(CurrentFile)
    /\ ~Contains(CurrentFile, SNAPSHOT_FNAME_KEY)
    /\ fidx' = fidx + 1
    /\ lastRun' = [kind |-> "nomarket", filename |-> CurrentFile]
    /\ UNCHANGED <<inputfiles, successes, failures, written, dpc, dexc>>
    /\ UNCHANGED <<tables, codecVars, pipeVars>>

\* an iteration on a file naming no market: "failures.append(filename); continue"
NoMarket ==
    /\ InLoop
    /\ None \in find_market(CurrentFile)
    /\ ~Contains(CurrentFile, SNAPSHOT_FNAME_KEY)
    /\ failures' = Append(failures, CurrentFile)
    /\ fidx' = fidx + 1
    /\ lastRun' = [kind |-> "nomarket", filename |-> CurrentFile]
    /\ UNCHANGED <<inputfiles, successes, written, dpc, dexc>>
    /\ UNCHANGED <<tables, codecVars, pipeVars>>

\* an iteration on a market file whose prefix is no key of FILE_PREFIXES: the
\* subscript raises KeyError, which "except ValueError" lets through
UnknownPrefix ==
    /\ InLoop
    /\ None \notin find_market(CurrentFile)
    /\ Prefix(CurrentFile) \notin DOMAIN FILE_PREFIXES
    /\ dpc' = "raised"
    /\ dexc' = "KeyError"
    /\ lastRun' = [kind |-> "dispatch", filename |-> CurrentFile]
    /\ UNCHANGED <<inputfiles, fidx, successes, failures, written>>
    /\ UNCHANGED <<tables, codecVars, pipeVars>>

\* the artifacts saved whatever the rows returned
SavedAlways(w, r, market, filename) ==
    IF r.cond
    THEN save_json(save_csv(w, CsvPath(market, filename)), JsonPath(market, filename))
    ELSE w

\* the driver after the handler returned r = (cond, data, json)
Saved(w, r, market, filename) ==
    IF r.cond /\ Len(r.data) > 0
    THEN save_json(save_csv(w, CsvPath(market, filename)), JsonPath(market, filename))
    ELSE w

\* an iteration on a market file of a known type: the handler runs on the
\* file's rows; an exception leaves process_data_files (ValueError is printed
\* and raised again, any other is not caught), a return is saved and recorded
RunHandler ==
    /\ InLoop
    /\ Prefix(CurrentFile) \in DOMAIN FILE_PREFIXES
    /\ \E market \in find_market(CurrentFile) \ {None} :
       \E rows \in Contents(FILE_PREFIXES[Prefix(CurrentFile)]) :
       \E r \in {CallHandler(FILE_PREFIXES[Prefix(CurrentFile)], rows)} :
          /\ lastRun' = [kind |-> "handler", filename |-> CurrentFile, market |-> market,
                         handler |-> FILE_PREFIXES[Prefix(CurrentFile)],
                         rows |-> rows, ret |-> r]
          /\ IF r.exc # NoExc
             THEN /\ dpc' = "raised"
                  /\ dexc' = r.exc
                  /\ UNCHANGED <<fidx, successes, failures, written>>
             ELSE /\ written' = Saved(written, r, market, CurrentFile)
                  /\ successes' = IF r.cond THEN Append(successes, CurrentFile) ELSE successes
                  /\ failures' = IF r.cond THEN failures ELSE Append(failures, CurrentFile)
                  /\ fidx' = fidx + 1
                  /\ UNCHANGED <<dpc, dexc>>
    /\ tables' = TablesAfter(tables, FILE_PREFIXES[Prefix(CurrentFile)])
    /\ UNCHANGED inputfiles
    /\ UNCHANGED <<codecVars, pipeVars>>

\* an iteration on the data snapshot file (no market in its name): the
\* snippets are computed, the file is recorded as a success and one snippet
\* per market is written; an exception of the rows is not caught
Snapshot ==
    /\ InLoop
    /\ None \in find_market(CurrentFile)
    /\ Contains(CurrentFile, SNAPSHOT_FNAME_KEY)
    /\ \E rows \in SnapshotContents :
       \E r \in {process_snapshot_inputdata(rows)} :
          /\ lastRun' = [kind |-> "snapshot", filename |-> CurrentFile,
                         rows |-> rows, ret |-> r]
          /\ IF r.exc # NoExc
             THEN /\ dpc' = "raised"
                  /\ dexc' = r.exc
                  /\ UNCHANGED <<fidx, successes, failures, written>>
             ELSE /\ successes' = Append(successes, CurrentFile)
                  /\ written' = SnapshotSaved(written, r.data)
                  /\ fidx' = fidx + 1
                  /\ UNCHANGED <<failures, dpc, dexc>>
    /\ UNCHANGED inputfiles
    /\ UNCHANGED <<tables, codecVars, pipeVars>>

\* "return len(successes), len(inputfiles)" once the loop is over
ReturnCounts ==
    /\ dpc = "loop"
    /\ fidx = Len(inputfiles)
    /\ dpc' = "done"
    /\ UNCHANGED <<inputfiles, fidx, successes, failures, written, dexc, lastRun>>
    /\ UNCHANGED <<tables, codecVars, pipeVars>>

Next == NoMarket \/ UnknownPrefix \/ RunHandler \/ Snapshot \/ ReturnCounts

Spec == Init /\ [][Next]_vars

-----------------------------------------------------------------------------
(* Properties of the batch driver (Spec) *)

InFailures(f) == \E i \in DOMAIN failures : failures[i] = f

\* C1: when the handler of a market file raises, process_data_files records
\* the file as a failure and goes on with the batch instead of raising.
C1_HandlerErrorIsRecorded ==
    (lastRun.kind = "handler" /\ lastRun.ret.exc # NoExc)
        => (dpc # "raised" /\ InFailures(lastRun.filename))

\* C2: a file naming a known market whose prefix is no key of FILE_PREFIXES
\* is recorded as a failure and the batch goes on.
C2_UnknownPrefixIsRecorded ==
    (/\ lastRun.kind # "none"
     /\ None \notin find_market(lastRun.filename)
     /\ Prefix(lastRun.filename) \notin DOMAIN FILE_PREFIXES)
        => (dpc # "raised" /\ InFailures(lastRun.filename))

AdjustmentHandlers == SummaryHandlers \cup GroupVolHandlers
LabelOf(h, row) == IF h \in GroupVolHandlers THEN row[4] ELSE row[3]
BadLabel(lab) == ~Contains(Lower(lab), S_unadjust) /\ ~Contains(Lower(lab), S_seasonal)
MonthParses(row) == int(row[1]).exc = NoExc

\* C7: a summary or group-volume file with a row whose adjustment label is
\* not recognised makes the run raise (TypeError, the classification error,
\* when every month number of the file parses), and neither the csv nor the
\* json of that file is written, wherever the row stands in the file.
C7_NoPartialOutput ==
    (/\ lastRun.kind = "handler"
     /\ lastRun.handler \in AdjustmentHandlers
     /\ \E i \in DOMAIN lastRun.rows : BadLabel(LabelOf(lastRun.handler, lastRun.rows[i])))
        => /\ lastRun.ret.exc # NoExc
           /\ dpc = "raised"
           /\ (\A i \in DOMAIN lastRun.rows : MonthParses(lastRun.rows[i]))
                 => dexc = "TypeError"
           /\ CsvPath(lastRun.market, lastRun.filename) \notin DOMAIN written
           /\ JsonPath(lastRun.market, lastRun.filename) \notin DOMAIN written

\* the second file of a batch has a good row and then a badly labelled one,
\* the first file was saved, and the run raised TypeError
C7_Witness ==
    /\ lastRun.kind = "handler"
    /\ lastRun.handler \in AdjustmentHandlers
    /\ Len(lastRun.rows) = 2
    /\ ~BadLabel(LabelOf(lastRun.handler, lastRun.rows[1]))
    /\ BadLabel(LabelOf(lastRun.handler, lastRun.rows[2]))
    /\ fidx = 1
    /\ DOMAIN written # {}
    /\ dpc = "raised"
    /\ dexc = "TypeError"

-----------------------------------------------------------------------------
(* Properties of one handler call (SpecAgg) *)

Parses(v) == v # None /\ float(v).exc = NoExc
PointOf(row, col) == <<Milliseconds(epochtime(row[2], DATE_SCHEMA).val), float(row[col]).val>>

\* the points of the rows of data whose column col parses as a number
RECURSIVE PointsOf(_, _)
PointsOf(data, col) ==
    IF Len(data) = 0 THEN <<>>
    ELSE (IF Parses(Head(data)[col]) THEN <<PointOf(Head(data), col)>> ELSE <<>>)
           \o PointsOf(Tail(data), col)

\* C3: the adjusted series of json_for_line_chart holds exactly the points of
\* the rows whose adjusted value parses, and the unadjusted series exactly
\* those of the rows whose unadjusted value parses.
C3_OnlyTheBadPointIsDropped ==
    (ppc = "done" /\ handler \in SummaryHandlers /\ Len(result.data) > 1)
        => /\ result.json.adjusted = PointsOf(Tail(result.data), 3)
           /\ result.json.unadjusted = PointsOf(Tail(result.data), 4)

\* some month of the rows S has no row for a legal group
MissingGroup(h, S) ==
    \E r \in S : \E g \in SeqToSet(YoyIn(h)) :
        ~\E x \in S : x[1] = r[1] /\ x[3] = g

\* C4: a grouped YOY file with legal groups only, one of them missing in some
\* month, is processed to the end (no exception).
C4_MissingGroupCompletes ==
    (/\ handler \in GroupYoyHandlers
     /\ \A r \in inputdata : MonthParses(r) /\ r[3] \in SeqToSet(YoyIn(handler))
     /\ MissingGroup(handler, inputdata)
     /\ todo = {})
        => ppc # "raised"

S_inquiry == <<"i","n","q","u","i","r","y">>
S_tightness == <<"t","i","g","h","t","n","e","s","s">>

\* C5: in process_yoy_summary a row whose label holds "inquiry" or
\* "tightness" (and neither "number" nor "volume") raises nothing.
C5_InquiryIsSkipped ==
    (/\ handler \in YoySummaryHandlers
     /\ lastRow # <<>>
     /\ MonthParses(lastRow)
     /\ ~Contains(Lower(lastRow[3]), S_number)
     /\ ~Contains(Lower(lastRow[3]), S_volume)
     /\ (Contains(Lower(lastRow[3]), S_inquiry) \/ Contains(Lower(lastRow[3]), S_tightness))
     /\ todo # inputdata)
        => pexc = NoExc

\* the (month) or (month, group) key a row of an adjustment file belongs to
KeyOf(h, row) ==
    IF h \in GroupVolHandlers THEN <<int(row[1]).val, row[3]>> ELSE <<int(row[1]).val>>
KeysOf(h, p) ==
    IF h \in GroupVolHandlers
    THEN {kg \in (DOMAIN p) \X UNION {DOMAIN p[m] : m \in DOMAIN p} :
            kg[2] \in DOMAIN p[kg[1]]}
    ELSE {<<k>> : k \in DOMAIN p}
\* the value in a slot of a key of the dict p, None for a key p does not hold
Cell(h, p, key, slot) ==
    IF key \notin KeysOf(h, p) THEN None
    ELSE IF h \in GroupVolHandlers THEN p[key[1]][key[2]][slot]
    ELSE p[key[1]][slot]
Untouched(h, p, q, key, slot) == Cell(h, q, key, slot) = Cell(h, p, key, slot)

\* C6: each iteration of the loop of process_file_summary and
\* process_group_file classifies the label of its row, lower-cased: holding
\* "unadjust" it writes the value to the unadjusted slot of the row's key,
\* else holding "seasonal" to the adjusted slot, else it raises TypeError;
\* the slots of every other key are left as they were.
C6_LabelClassification ==
    [][(/\ handler \in AdjustmentHandlers
        /\ ppc = "rows"
        /\ todo' # todo
        /\ MonthParses(lastRow'))
         => /\ Contains(Lower(LabelOf(handler, lastRow')), S_unadjust)
                 => /\ pexc' = NoExc
                    /\ Cell(handler, proc', KeyOf(handler, lastRow'), "unadj") = lastRow'[2]
                    /\ Untouched(handler, proc, proc', KeyOf(handler, lastRow'), "adj")
            /\ (/\ ~Contains(Lower(LabelOf(handler, lastRow')), S_unadjust)
                /\ Contains(Lower(LabelOf(handler, lastRow')), S_seasonal))
                 => /\ pexc' = NoExc
                    /\ Cell(handler, proc', KeyOf(handler, lastRow'), "adj") = lastRow'[2]
                    /\ Untouched(handler, proc, proc', KeyOf(handler, lastRow'), "unadj")
            /\ BadLabel(LabelOf(handler, lastRow'))
                 => /\ pexc' = "TypeError"
                    /\ ppc' = "raised"
                    /\ Untouched(handler, proc, proc', KeyOf(handler, lastRow'), "adj")
                    /\ Untouched(handler, proc, proc', KeyOf(handler, lastRow'), "unadj")
            /\ \A key \in (KeysOf(handler, proc) \cup KeysOf(handler, proc'))
                            \ {KeyOf(handler, lastRow')} :
                  /\ Untouched(handler, proc, proc', key, "adj")
                  /\ Untouched(handler, proc, proc', key, "unadj")
      ]_vars

\* a label holding both words went to the unadjusted slot of a group, in a
\* file of which another row was read before
C6_Witness ==
    /\ handler \in GroupVolHandlers
    /\ ppc = "rows"
    /\ Cardinality(inputdata \ todo) >= 2
    /\ lastRow # <<>>
    /\ lastRow[4] = L_SeasUnadj
    /\ Cell(handler, proc, KeyOf(handler, lastRow), "unadj") = lastRow[2]
    /\ Cardinality(KeysOf(handler, proc)) >= 2

\* what a row writes: its key, and its slot as a one-word tuple (the group
\* name for a grouped YOY row), <<>> when the row's label or group is refused
WKey(h, row) == KeyOf(h, row)
WSlot(h, row) ==
    CASE h \in AdjustmentHandlers ->
           (IF Contains(Lower(LabelOf(h, row)), S_unadjust) THEN <<"unadj">>
            ELSE IF Contains(Lower(LabelOf(h, row)), S_seasonal) THEN <<"adj">>
            ELSE <<>>)
      [] h \in YoySummaryHandlers ->
           (IF Contains(Lower(row[3]), S_number) THEN <<"num">>
            ELSE IF Contains(Lower(row[3]), S_volume) THEN <<"vol">>
            ELSE <<>>)
      [] h \in GroupYoyHandlers ->
           (IF row[3] \in SeqToSet(YoyIn(h)) THEN row[3] ELSE <<>>)
WellFormed(h, row) == MonthParses(row) /\ WSlot(h, row) # <<>>

\* each (key, slot) is written by at most one row of S
WrittenOnce(h, S) ==
    \A r1, r2 \in {r \in S : WellFormed(h, r)} :
        (WKey(h, r1) = WKey(h, r2) /\ WSlot(h, r1) = WSlot(h, r2)) => r1 = r2

WritersOf(h, S, key, slot) ==
    {r \in S : WellFormed(h, r) /\ WKey(h, r) = key /\ WSlot(h, r) = slot}
\* the value a set of writers leaves in their slot, whatever their order
ValueOf(writers) == IF writers = {} THEN None ELSE (CHOOSE r \in writers : TRUE)[2]
ValueIn(h, S, key, slot) == ValueOf(WritersOf(h, S, key, slot))
MonthsOf(h, S) == {int(r[1]).val : r \in {x \in S : WellFormed(h, x)}}
GroupsOf(h, S, m) == {r[3] : r \in {x \in S : WellFormed(h, x) /\ int(x[1]).val = m}}

\* the aggregate of the rows S, defined from the set
ExpectedProc(h, S) ==
    CASE h \in SummaryHandlers ->
           [m \in MonthsOf(h, S) |->
               [adj |-> ValueIn(h, S, <<m>>, <<"adj">>),
                unadj |-> ValueIn(h, S, <<m>>, <<"unadj">>)]]
      [] h \in YoySummaryHandlers ->
           [m \in MonthsOf(h, S) |->
               [num |-> ValueIn(h, S, <<m>>, <<"num">>),
                vol |-> ValueIn(h, S, <<m>>, <<"vol">>)]]
      [] h \in GroupYoyHandlers ->
           [m \in MonthsOf(h, S) |->
               [g \in SeqToSet(YoyIn(h)) |-> ValueIn(h, S, <<m>>, g)]]
      [] h \in GroupVolHandlers ->
           [m \in MonthsOf(h, S) |->
               [g \in GroupsOf(h, S, m) |->
                   [adj |-> ValueIn(h, S, <<m, g>>, <<"adj">>),
                    unadj |-> ValueIn(h, S, <<m, g>>, <<"unadj">>)]]]

DateOf(m) == actual_date(m, DATE_SCHEMA).str

\* the pivoted rows of the rows S, as a set
ExpectedRows(h, S) ==
    CASE h \in SummaryHandlers ->
           {<<m, DateOf(m), ValueIn(h, S, <<m>>, <<"adj">>),
              ValueIn(h, S, <<m>>, <<"unadj">>)>> : m \in MonthsOf(h, S)}
      [] h \in YoySummaryHandlers ->
           {<<m, DateOf(m), ValueIn(h, S, <<m>>, <<"num">>),
              ValueIn(h, S, <<m>>, <<"vol">>)>> : m \in MonthsOf(h, S)}
      [] h \in GroupYoyHandlers ->
           {<<m, DateOf(m)>> \o [j \in DOMAIN YoyIn(h) |-> ValueIn(h, S, <<m>>, YoyIn(h)[j])] :
              m \in MonthsOf(h, S)}
      [] h \in GroupVolHandlers ->
           UNION {{<<m, DateOf(m), ValueIn(h, S, <<m, g>>, <<"adj">>),
                     ValueIn(h, S, <<m, g>>, <<"unadj">>), TextFix(g)>> :
                      g \in GroupsOf(h, S, m)} : m \in MonthsOf(h, S)}

Ascending(rows) == \A i, j \in DOMAIN rows : i < j => RowCmp(rows[i], rows[j]) < 0

\* C10: on a file of which every (key, slot) is written by at most one row,
\* the dict built from the rows read so far is the aggregate of their set,
\* whatever the order they were read in (a row that is refused raises in
\* every order), and the rows returned are the pivot of that set, ascending.
C10_OrderDoesNotMatter ==
    (handler \in MonthHandlers /\ WrittenOnce(handler, inputdata))
        => /\ (\E r \in inputdata \ todo : ~WellFormed(handler, r)) => ppc = "raised"
           /\ (\A r \in inputdata \ todo : WellFormed(handler, r))
                 => proc = ExpectedProc(handler, inputdata \ todo)
           /\ ppc = "done"
                 => IF inputdata = {} THEN result.data = <<>>
                    ELSE /\ SeqToSet(Tail(result.data)) = ExpectedRows(handler, inputdata)
                         /\ Len(result.data) = 1 + Cardinality(ExpectedRows(handler, inputdata))
                         /\ Ascending(Tail(result.data))

\* a file of four rows filling both slots of two months was read to the end
C10_Witness ==
    /\ ppc = "done"
    /\ handler \in SummaryHandlers
    /\ WrittenOnce(handler, inputdata)
    /\ Cardinality(inputdata) = 4
    /\ Len(result.data) = 3
    /\ \E r1, r2 \in inputdata : r1 # r2 /\ WKey(handler, r1) = WKey(handler, r2)

-----------------------------------------------------------------------------
(* Properties of actual_date (SpecDate) *)

\* C8: actual_date fails on every negative month index.
C8_NegativeMonthFails ==
    (cpc = "ret" /\ month < 0) => date_out.exc # NoExc

\* C9: for a month index m >= 0 up to December of year 9999 actual_date
\* returns a string, and the year and month read back from the string it
\* returns are BASE_YEAR + m div 12 and m mod 12 + 1, with BASE_YEAR = 2000.
C9_YearAndMonth ==
    (cpc = "ret" /\ month >= 0)
        => /\ BASE_YEAR = 2000
           /\ month <= LastMonthOfMaxYear => date_out.exc = NoExc
           /\ date_out.exc = NoExc
                 => /\ strptime(date_out.str, DATE_SCHEMA).exc = NoExc
                    /\ strptime(date_out.str, DATE_SCHEMA).year = BASE_YEAR + (month \div 12)
                    /\ strptime(date_out.str, DATE_SCHEMA).mon = (month % 12) + 1

\* month 23 came back as December 2001
C9_Witness ==
    /\ cpc = "ret"
    /\ month = 23
    /\ date_out.exc = NoExc
    /\ date_out.str = <<"2","0","0","1","-","1","2">>

-----------------------------------------------------------------------------
(* C11 *)

\* the header each handler is given or builds
SchemaOf(h) ==
    CASE h = "process_map" -> MAP_OUTPUT_SCHEMA
      [] h = "process_num_summary" -> SUMMARY_NUM_OUTPUT_SCHEMA
      [] h = "process_vol_summary" -> SUMMARY_VOL_OUTPUT_SCHEMA
      [] h \in GroupVolHandlers -> GroupVolSchema(h)
      [] h \in GroupYoyHandlers -> YoySchema(YoyCols(h))
      [] h \in YoySummaryHandlers -> YOY_SUMMARY_OUTPUT_SCHEMA

\* C11: every non-empty row set a per-file pipeline returns has the output
\* schema of the pipeline as its first row, and every following row has
\* exactly as many columns as that schema.
C11_RowsFitSchema ==
    (ppc = "done" /\ Len(result.data) > 0) =>
        /\ result.data[1] = SchemaOf(handler)
        /\ \A i \in 2..Len(result.data) : Len(result.data[i]) = Len(SchemaOf(handler))

\* a grouped year-over-year file returned a header and a data row
C11_Witness ==
    /\ ppc = "done"
    /\ handler \in GroupYoyHandlers
    /\ Len(result.data) > 1
    /\ Len(result.data[2]) = Len(YoyCols(handler)) + 2

-----------------------------------------------------------------------------
(* C12 *)

\* the series of the chart structure of handler h
SeriesOf(h, json) ==
    CASE h \in SummaryHandlers -> {json.adjusted, json.unadjusted}
      [] h \in GroupVolHandlers ->
           UNION {{json[g].adjusted, json[g].unadjusted} : g \in DOMAIN json}
      [] OTHER -> {json[k] : k \in DOMAIN json}

\* order of two epoch-millisecond values
MsLess(a, b) == a[1] < b[1] \/ (a[1] = b[1] /\ a[2] < b[2])

StrictlyIncreasing(s) == \A i \in 1..(Len(s) - 1) : MsLess(s[i][1], s[i + 1][1])
NonDecreasing(s) == \A i \in 1..(Len(s) - 1) : ~MsLess(s[i + 1][1], s[i][1])

MsOf(m) == Milliseconds(epochtime(actual_date(m, DATE_SCHEMA).str, DATE_SCHEMA).val)

\* no two rows of one month carry labels that name the same series
DistinctSeriesNames(rows) ==
    \A i, j \in DOMAIN rows :
        (i # j /\ rows[i][1] = rows[j][1] /\ Len(rows[i]) = 5 /\ rows[i][5] # None
              /\ rows[j][5] # None)
            => StripAge(rows[i][5]) # StripAge(rows[j][5])

MonthsAscend(rows) == \A i \in 1..(Len(rows) - 1) : rows[i][1] <= rows[i + 1][1]

\* C12 (amended): whatever the order of the rows of the file, the data rows
\* returned are in ascending month order and every series of the chart lists
\* its points in non-decreasing epoch-millisecond order, strictly increasing
\* unless two group labels of one month name the same series; the timestamp
\* of month m+1 is greater than that of month m.
C12_SortedRowsAndSeries ==
    (ppc = "done" /\ handler \in MonthHandlers /\ Len(result.data) > 1) =>
        /\ MonthsAscend(Tail(result.data))
        /\ \A s \in SeriesOf(handler, result.json) :
              /\ NonDecreasing(s)
              /\ (handler \in GroupVolHandlers => DistinctSeriesNames(Tail(result.data)))
                    => StrictlyIncreasing(s)
        /\ \A m \in 0..MaxMonth : MsLess(MsOf(m), MsOf(m + 1))

\* C12 as stated: every series is strictly increasing for every file
C12_SeriesStrictlyIncrease ==
    (ppc = "done" /\ handler \in MonthHandlers /\ Len(result.data) > 1) =>
        /\ MonthsAscend(Tail(result.data))
        /\ \A s \in SeriesOf(handler, result.json) : StrictlyIncreasing(s)

\* a file of two months returned, read in descending month order, with a
\* series of two points
C12_Witness ==
    /\ ppc = "done"
    /\ handler \in MonthHandlers
    /\ Len(result.data) > 2
    /\ int(lastRow[1]).val = 0
    /\ \E s \in SeriesOf(handler, result.json) : Len(s) > 1 /\ StrictlyIncreasing(s)

-----------------------------------------------------------------------------
(* C13 *)

EmptyReturn == Return(TRUE, <<>>, <<>>)

\* C13: on a file without data rows every per-file pipeline returns the
\* success flag true with an empty row set and an empty chart structure, and
\* the driver counts the file as a success and writes no artifact for it.
C13_EmptyFileSucceeds ==
    /\ \A h \in RowHandlers : CallHandler(h, <<>>) = EmptyReturn
    /\ (lastRun.kind = "handler" /\ lastRun.rows = <<>>) =>
          /\ lastRun.ret = EmptyReturn
          /\ dpc # "raised"
          /\ successes[Len(successes)] = lastRun.filename
          /\ lastRun.filename \notin SeqToSet(failures)
          /\ CsvPath(lastRun.market, lastRun.filename) \notin DOMAIN written
          /\ JsonPath(lastRun.market, lastRun.filename) \notin DOMAIN written

\* the driver has handled an empty file after a file it wrote artifacts for
C13_Witness ==
    /\ lastRun.kind = "handler"
    /\ lastRun.rows = <<>>
    /\ fidx = 2
    /\ Len(successes) = 2
    /\ Cardinality(DOMAIN written) = 2

-----------------------------------------------------------------------------
(* C14 *)

\* the rows of a grouped YOY file that the loop accepts
LegalYoyRows(h, S) == \A r \in S : MonthParses(r) /\ r[3] \in SeqToSet(YoyIn(h))

\* C14: json_for_group_bar_chart, called on the pivoted rows of a grouped YOY
\* file, returns exactly one series per column: the series under out_names[i]
\* is the sequence, in row order, of the points [epoch-ms, value] of the rows
\* whose column 2+i parses as a number; a value that is no number in one
\* column drops no point of another column.
C14_OneSeriesPerColumn ==
    (/\ handler \in GroupYoyHandlers
     /\ inputdata # {}
     /\ LegalYoyRows(handler, inputdata)
     /\ todo = {}
     /\ ppc # "rows")
        => /\ ppc = "done"
           /\ DOMAIN result.json = SeqToSet(YoyJson(handler))
           /\ \A i \in DOMAIN YoyCols(handler) :
                 result.json[YoyJson(handler)[i]] = PointsOf(Tail(result.data), 2 + i)

-----------------------------------------------------------------------------
(* C15 *)

S_45_67 == <<"4","5",".","6","7">>
S_0_4567 == <<"0",".","4","5","6","7">>

\* s is a decimal with exactly two fraction digits whose value is that of
\* v * 100 rounded to the nearest hundredth; fs and fv are float(s), float(v)
IsPercentOf(s, fs, fv) ==
    /\ fs.exc = NoExc
    /\ Find(s, <<".">>) = Len(s) - 3
    /\ 2 * Abs(fs.val.m * Pow10(2 - fs.val.e) * Pow10(fv.val.e) - fv.val.m * 10000)
          <= Pow10(fv.val.e)

\* C15: json_for_tile_map returns one {name, value} record per input row, in
\* input order, the name being the row's state abbreviation; a numeric value v
\* becomes the string of v * 100 with two decimal places ("0.4567" gives
\* "45.67") and a value that is no number is passed through unchanged.
C15_TileMapRecords ==
    (ppc = "done" /\ handler \in MapHandlers /\ Len(result.data) > 1) =>
        /\ Len(result.json) = Len(result.data) - 1
        /\ \A i \in DOMAIN result.json :
              /\ DOMAIN result.json[i] = {"name", "value"}
              /\ result.json[i].name = result.data[i + 1][2]
              /\ IF Parses(result.data[i + 1][3])
                 THEN IsPercentOf(result.json[i].value, float(result.json[i].value),
                                  float(result.data[i + 1][3]))
                 ELSE result.json[i].value = result.data[i + 1][3]
              /\ result.data[i + 1][3] = S_0_4567 => result.json[i].value = S_45_67

\* a map file with "0.4567" and "NA" returned
C15_Witness ==
    /\ ppc = "done"
    /\ handler \in MapHandlers
    /\ Len(result.json) > 2
    /\ \E i \in DOMAIN result.json : result.json[i].value = S_45_67
    /\ \E i \in DOMAIN result.json : result.json[i].value = <<"N","A">>
    /\ \E i \in DOMAIN result.json : result.json[i].value = <<"-","1",".","5","0">>

-----------------------------------------------------------------------------
(* C17 (SpecNum) *)

S_thousand == <<"t","h","o","u","s","a","n","d">>
S_1234000 == <<"1","2","3","4","0","0","0">>
S_67 == <<"6","7">>

\* the word printed after the number, and the number printed before it
WordOf(s) == IF Find(s, <<" ">>) < 0 THEN <<>> ELSE SubSeq(s, Find(s, <<" ">>) + 2, Len(s))
NumberOf(s) == IF Find(s, <<" ">>) < 0 THEN s ELSE SubSeq(s, 1, Find(s, <<" ">>))

\* the digits of s, without leading zeros
DigitsIn(s) == StripLead(SelectSeq(s, IsDigit))

\* the first k digits of the number n, the integer digits counted from the
\* first
Leading(n, k) == SubSeq(n.ip \o n.fp \o Zeros(k), 1, k)

\* s prints n / 10^(3 * idx) with dp fraction digits: it has dp digits after
\* the point and its digits are the leading digits of n, or these plus one in
\* the last place
PrintsScaled(s, n, idx, dp) ==
    /\ \A i \in DOMAIN s : IsDigit(s[i]) \/ s[i] \in {",", ".", "-"}
    /\ IF dp = 0 THEN Find(s, <<".">>) < 0 ELSE Find(s, <<".">>) = Len(s) - dp - 1
    /\ DigitsIn(s) \in { StripLead(Leading(n, Len(n.ip) - 3 * idx + dp)),
                         StripLead(IncDigits(Leading(n, Len(n.ip) - 3 * idx + dp))) }

\* the word of the magnitude 1000^idx, with "thousand" for idx = 1
NamedMagnitude(idx) == IF idx = 1 THEN S_thousand ELSE numnames[idx + 1]

Examples(n, out) ==
    /\ (num = S_1234000 /\ whole_units # 0 /\ places = 1)
          => out = <<"1",".","2"," ">> \o numnames[3]
    /\ (num = S_67 /\ whole_units # 0) => out = S_67

\* every number below one million is printed whole when whole_units_only is set
WholeBelowMillion(n, out) ==
    (Len(n.ip) < 7 /\ whole_units # 0) => (WordOf(out) = <<>> /\ PrintsScaled(out, n, 0, 0))

\* C17 (amended): human_numbers prints a number of at least one million
\* divided by its power of 1000 and followed by the word of that power
\* (million .. quintillion, the largest word serving every larger number); a
\* number below one million is printed undivided and without a word, as a
\* whole number when whole_units_only is set (67 gives "67") and with
\* decimal_places decimals otherwise; 1,234,000 gives "1.2 million".
C17_HumanNumbers ==
    (hpc = "ret" /\ FloatDigits(num).exc = NoExc) =>
        /\ hn_out.exc = NoExc
        /\ \E n \in {FloatDigits(num).val} : \E out \in {hn_out.str} :
              /\ Len(n.ip) >= 7 =>
                    /\ WordOf(out) = numnames[Min(Len(numnames) - 1, (Len(n.ip) - 1) \div 3) + 1]
                    /\ WordOf(out) # <<>>
                    /\ PrintsScaled(NumberOf(out), n, Min(Len(numnames) - 1, (Len(n.ip) - 1) \div 3), places)
              /\ WholeBelowMillion(n, out)
              /\ (Len(n.ip) < 7 /\ whole_units = 0) =>
                    (WordOf(out) = <<>> /\ PrintsScaled(out, n, 0, places))
              /\ Examples(n, out)

\* C17 as stated: every number of at least a thousand that is not printed
\* whole carries the word of its power of 1000, "thousand" included, and is
\* divided by that power
C17_WordForEveryPower ==
    (hpc = "ret" /\ FloatDigits(num).exc = NoExc) =>
        /\ hn_out.exc = NoExc
        /\ \E n \in {FloatDigits(num).val} : \E out \in {hn_out.str} :
              /\ (Len(n.ip) >= 4 /\ Len(n.ip) <= 21 /\ ~(Len(n.ip) < 7 /\ whole_units # 0)) =>
                    /\ WordOf(out) = NamedMagnitude((Len(n.ip) - 1) \div 3)
                    /\ PrintsScaled(NumberOf(out), n, (Len(n.ip) - 1) \div 3, places)
              /\ WholeBelowMillion(n, out)
              /\ Examples(n, out)

\* the call on 1,234,000 with the default arguments has returned
C17_Witness ==
    /\ hpc = "ret"
    /\ num = S_1234000
    /\ places = 1
    /\ whole_units = 1
    /\ hn_out = [exc |-> NoExc, str |-> <<"1",".","2"," ","m","i","l","l","i","o","n">>]

-----------------------------------------------------------------------------
(* The data snapshot path (Spec) *)

\* the market name of an abbreviation
NameOfCode(code) ==
    MARKET_NAMES[CHOOSE i \in DOMAIN MARKET_NAMES : MARKET_NAMES[i][1] = code][2]

\* a row whose market has descriptors, whose month has a date and whose
\* three numbers are decimal literals
LegalSnapshotRow(row) ==
    /\ row[1] \in DOMAIN HTML_MKT_NAMES
    /\ int(row[2]).exc = NoExc
    /\ actual_date(int(row[2]).val, SNAPSHOT_MONTH_SCHEMA).exc = NoExc
    /\ \A k \in 3..5 : FloatDigits(row[k]).exc = NoExc

\* the last row of a market
LastRowOf(rows, name) ==
    rows[CHOOSE i \in DOMAIN rows :
            /\ NameOfCode(rows[i][1]) = name
            /\ \A j \in DOMAIN rows : NameOfCode(rows[j][1]) = name => j <= i]

\* the data_snapshot.html files written so far
HtmlPaths == {p \in DOMAIN written : written[p] = "html"}

\* the snippet of 1,234,000 auto loans of 25 billion dollars, up 3.5 percent
AutoSnippet ==
    <<"<","h","3",">","<","b",">","1",".","2","&","n","b","s","p",";","m","i","l","l","i","o",
      "n","<","/","b",">","<","b","r",">","A","u","t","o"," ","l","o","a","n","s"," ","o","r",
      "i","g","i","n","a","t","e","d","<","/","h","3",">","\n","<","h","3",">","<","b","r",">",
      "<","b",">","$","2","5",".","0","&","n","b","s","p",";","b","i","l","l","i","o","n","<",
      "/","b",">","<","b","r",">","D","o","l","l","a","r"," ","v","o","l","u","m","e"," ","o",
      "f"," ","n","e","w"," ","l","o","a","n","s","<","/","h","3",">","\n","<","h","3",">","<",
      "b","r",">","<","b",">","3",".","5","%"," ","i","n","c","r","e","a","s","e","<","/","b",
      ">","<","b","r",">","I","n"," ","y","e","a","r","-","o","v","e","r","-","y","e","a","r",
      " ","o","r","i","g","i","n","a","t","i","o","n","s","<","/","h","3",">","\n">>

AutoRow ==
    <<<<"A","U","T">>, <<"0">>, <<"1","2","3","4","0","0","0">>,
      <<"2","5","0","0","0","0","0","0","0","0","0">>, <<"3",".","5">>>>

-----------------------------------------------------------------------------
(* The module-level tables across the files of a run (Spec) *)

\* the header of the rows a handler returned
HeaderOf(r) == r.data[1]

S_income_level_group ==
    <<"i","n","c","o","m","e","_","l","e","v","e","l","_","g","r","o","u","p">>

\* C18: processing a file leaves every module-level schema as the module
\* bound it (the grouped-file helpers write to a copy), whether the handler
\* returned or raised, so what a handler returns for a file is what it
\* returns on these rows with the schemas as loaded, whatever files were
\* processed before it in the run; the header of a group-volume file names
\* the group of its own handler.
C18_TablesUnchanged ==
    /\ tables = StaticTables
    /\ lastRun.kind = "handler" =>
          /\ lastRun.ret = CallHandler(lastRun.handler, lastRun.rows)
          /\ TablesAfter(StaticTables, lastRun.handler) = StaticTables
          /\ (/\ lastRun.ret.exc = NoExc
              /\ lastRun.handler \in GroupVolHandlers
              /\ Len(lastRun.ret.data) > 0)
                => HeaderOf(lastRun.ret)
                     = SubSeq(GROUP_VOL_OUTPUT_SCHEMA, 1, 4)
                         \o <<Format(GROUP_VOL_OUTPUT_SCHEMA[5], GroupOf(lastRun.handler))>>
          /\ (/\ lastRun.ret.exc = NoExc
              /\ lastRun.handler \in GroupYoyHandlers
              /\ Len(lastRun.ret.data) > 0)
                => /\ SubSeq(HeaderOf(lastRun.ret), 1, 2) = GROUP_YOY_OUTPUT_SCHEMA
                   /\ Len(HeaderOf(lastRun.ret)) = 2 + Len(YoyCols(lastRun.handler))

\* the income file was processed after the age file of the same kind, and its
\* header ends with the income group
C18_Witness ==
    /\ successes = <<F_vol_age_CRC, F_vol_income_AUT>>
    /\ lastRun.kind = "handler"
    /\ lastRun.filename = F_vol_income_AUT
    /\ Len(lastRun.ret.data) > 1
    /\ HeaderOf(lastRun.ret)[5] = S_income_level_group
    /\ Cardinality(DOMAIN written) = 4

-----------------------------------------------------------------------------
(* The chart structure of a group-volume file (SpecAgg) *)

S_Age_sp == <<"A","g","e"," ">>

\* the key of a group label: the label without a leading "Age "
KeyOfLabel(groupname) ==
    IF Len(groupname) >= Len(S_Age_sp) /\ SubSeq(groupname, 1, Len(S_Age_sp)) = S_Age_sp
    THEN SubSeq(groupname, Len(S_Age_sp) + 1, Len(groupname))
    ELSE groupname

\* the output rows whose label has the key g, in row order
RECURSIVE RowsOfGroup(_, _)
RowsOfGroup(data, g) ==
    IF Len(data) = 0 THEN <<>>
    ELSE (IF KeyOfLabel(Head(data)[5]) = g THEN <<Head(data)>> ELSE <<>>)
           \o RowsOfGroup(Tail(data), g)

\* C19: json_for_group_line_chart returns one {adjusted, unadjusted} pair per
\* distinct key of a group label (the label without a leading "Age "), and
\* in each group the adjusted series holds exactly the points of the group's
\* rows whose adjusted value parses, the unadjusted series exactly those
\* whose unadjusted value parses: a value that does not parse drops its own
\* point only.
C19_GroupPointDroppedAlone ==
    (ppc = "done" /\ handler \in GroupVolHandlers /\ Len(result.data) > 1)
        => /\ DOMAIN result.json
                = {KeyOfLabel(result.data[i][5]) : i \in 2..Len(result.data)}
           /\ \A g \in DOMAIN result.json :
                 /\ result.json[g].adjusted
                      = PointsOf(RowsOfGroup(Tail(result.data), g), 3)
                 /\ result.json[g].unadjusted
                      = PointsOf(RowsOfGroup(Tail(result.data), g), 4)

-----------------------------------------------------------------------------
(* The counts process_data_files returns (Spec) *)

\* how many times the file f stands in the list l
RECURSIVE Count(_, _)
Count(l, f) ==
    IF Len(l) = 0 THEN 0 ELSE (IF Head(l) = f THEN 1 ELSE 0) + Count(Tail(l), f)

\* a file naming no market that is not the snapshot file
Unmarketed(f) == None \in find_market(f) /\ ~Contains(f, SNAPSHOT_FNAME_KEY)

\* C20: when process_data_files has returned, every input file stands once
\* in exactly one of successes and failures, so the two lists together are
\* as long as inputfiles and the success count returned is at most the total
\* returned; a file naming no market that is not the snapshot file is
\* appended to failures, not to successes, and the loop goes on with the
\* next file.
C20_EveryFileRecordedOnce ==
    /\ dpc = "done" =>
          /\ \A i \in DOMAIN inputfiles :
                Count(successes, inputfiles[i]) + Count(failures, inputfiles[i]) = 1
          /\ Len(successes) + Len(failures) = Len(inputfiles)
          /\ Len(successes) <= Len(inputfiles)
          /\ \A i \in DOMAIN inputfiles :
                Unmarketed(inputfiles[i]) => Count(failures, inputfiles[i]) = 1
    /\ lastRun.kind = "nomarket" =>
          /\ Unmarketed(lastRun.filename)
          /\ Len(failures) > 0
          /\ failures[Len(failures)] = lastRun.filename
          /\ Count(successes, lastRun.filename) = 0
          /\ dpc # "raised"
          /\ inputfiles[fidx] = lastRun.filename

\* a run over a market file and a file naming no market has returned with
\* one success and one failure
C20_Witness ==
    /\ dpc = "done"
    /\ Len(inputfiles) = 2
    /\ Unmarketed(inputfiles[1])
    /\ failures = <<inputfiles[1]>>
    /\ successes = <<inputfiles[2]>>
    /\ ~Unmarketed(inputfiles[2])

-----------------------------------------------------------------------------
(* The two artifacts of a processed file (Spec) *)

\* the latest file was handled without exception and returned rows
ProcessedWithData ==
    /\ lastRun.kind = "handler"
    /\ lastRun.ret.exc = NoExc
    /\ lastRun.ret.cond
    /\ Len(lastRun.ret.data) > 0

=============================================================================
